---------------------------- MODULE Spec2Model ----------------------------
(***************************************************************************)
(* A model of the menu composition engine of menu_generator.py: the feed   *)
(* normalizer, the preroll / cart / prepack classification, the grouping   *)
(* and sorting, the discount highlight of the flower table, text           *)
(* truncation and the seven document generators.                           *)
(*                                                                         *)
(* Python values are represented as follows.                               *)
(*   str        a TLA+ string; characters are read with SubSeq             *)
(*   dict       a function whose DOMAIN is the set of keys present, so a   *)
(*              missing key is a key outside the DOMAIN; {} is <<>>        *)
(*   list       a sequence                                                 *)
(*   None       for a feed level: the record Null; Some(v) is a value      *)
(*   an exception   the record field raised = TRUE of a function's result  *)
(*   price      dollars are cents / 100.0; the model keeps the number of   *)
(*              cents, which orders and compares the same way              *)
(*   lineage weight   LINEAGE_ORDER holds halves (0.5, 2.5); the model     *)
(*              keeps twice the weight                                     *)
(***************************************************************************)
EXTENDS Integers, Sequences, FiniteSets, TLC

VARIABLES
    pc,              \* where the generation request stands
    store,           \* the store the menu is rendered for
    menu_choice,     \* the key of MENU_GENERATOR_MAP that was selected
    menu_feed,       \* the raw feed, as fetched
    processed_data,  \* what the data extractor returned
    pdf              \* what the PDF generator returned

vars == <<pc, store, menu_choice, menu_feed, processed_data, pdf>>

(***************************************************************************)
(* Bounds of the model                                                     *)
(***************************************************************************)
MaxGroups == 2
MaxItems == 2

(***************************************************************************)
(* Python built-ins on strings                                             *)
(***************************************************************************)
\* The characters the model's strings are made of, in code point order.
Ascii == " -./0123456789ABCDEFGHIJKLMNOPQRSTUVWXYZ[]abcdefghijklmnopqrstuvwxyz~"
UpperChars == "ABCDEFGHIJKLMNOPQRSTUVWXYZ"
LowerChars == "abcdefghijklmnopqrstuvwxyz"
DigitChars == "0123456789"

CharAt(s, i) == SubSeq(s, i, i)

IndexIn(c, alphabet) ==
    IF \E i \in 1..Len(alphabet) : CharAt(alphabet, i) = c
    THEN CHOOSE i \in 1..Len(alphabet) : CharAt(alphabet, i) = c
    ELSE 0

CharsOf(alphabet) == {CharAt(alphabet, i) : i \in 1..Len(alphabet)}

UpperSet == CharsOf(UpperChars)
LowerSet == CharsOf(LowerChars)
DigitSet == CharsOf(DigitChars)

\* ord(c): the position in code point order
OrdOf == [c \in CharsOf(Ascii) |-> IndexIn(c, Ascii)]
Ord(c) == OrdOf[c]

IsAlpha(c) == c \in UpperSet \/ c \in LowerSet
IsDigit(c) == c \in DigitSet

LowerOf == [c \in UpperSet |-> CharAt(LowerChars, IndexIn(c, UpperChars))]
UpperOf == [c \in LowerSet |-> CharAt(UpperChars, IndexIn(c, LowerChars))]

LowerChar(c) == IF c \in UpperSet THEN LowerOf[c] ELSE c
UpperChar(c) == IF c \in LowerSet THEN UpperOf[c] ELSE c

RECURSIVE Upper(_)
\* str.upper()
Upper(s) == IF s = "" THEN "" ELSE UpperChar(CharAt(s, 1)) \o Upper(Tail(s))

RECURSIVE Lower(_)
\* str.lower()
Lower(s) == IF s = "" THEN "" ELSE LowerChar(CharAt(s, 1)) \o Lower(Tail(s))

RECURSIVE LStrip(_)
LStrip(s) == IF s # "" /\ CharAt(s, 1) = " " THEN LStrip(Tail(s)) ELSE s

RECURSIVE RStrip(_)
RStrip(s) ==
    IF s # "" /\ CharAt(s, Len(s)) = " " THEN RStrip(SubSeq(s, 1, Len(s) - 1)) ELSE s

\* str.strip()
Strip(s) == RStrip(LStrip(s))

\* sub in s
Contains(s, sub) ==
    \E i \in 1..(Len(s) - Len(sub) + 1) : SubSeq(s, i, i + Len(sub) - 1) = sub

\* s.startswith(p)
StartsWith(s, p) == Len(p) <= Len(s) /\ SubSeq(s, 1, Len(p)) = p

RECURSIVE StrLess(_, _)
\* a < b on str: lexicographic by code point
StrLess(a, b) ==
    IF b = "" THEN FALSE
    ELSE IF a = "" THEN TRUE
    ELSE IF CharAt(a, 1) = CharAt(b, 1) THEN StrLess(Tail(a), Tail(b))
    ELSE Ord(CharAt(a, 1)) < Ord(CharAt(b, 1))

(***************************************************************************)
(* Python built-ins on dicts and lists                                     *)
(***************************************************************************)
Null == [null |-> TRUE]
Some(v) == [null |-> FALSE, v |-> v]
EmptyDict == <<>>

\* d.get(k, default)
Get(d, k, default) == IF k \in DOMAIN d THEN d[k] ELSE default

\* a key whose value in the feed is null: the record lists it in none_keys and
\* carries no field for it (d.get(k) is None, d.get(k) or "" is "")
IsNone(d, k) == "none_keys" \in DOMAIN d /\ k \in d.none_keys

\* d.get(k) or "" for a str field (a missing key and "" read the same)
GetStr(d, k) == Get(d, k, "")

Range(s) == {s[i] : i \in DOMAIN s}

RECURSIVE Flatten(_)
Flatten(ss) == IF ss = <<>> THEN <<>> ELSE Head(ss) \o Flatten(Tail(ss))

\* the sequences over S of length at most n
SeqsUpTo(S, n) == UNION {[1..k -> S] : k \in 0..n}

Ok(v) == [raised |-> FALSE, value |-> v]
Raised == [raised |-> TRUE]

(***************************************************************************)
(* Feed Normalizer                                                         *)
(***************************************************************************)
\* for group in menu_groups: items.extend(group.get("menu_items", []))
\* extend(None) raises TypeError
RECURSIVE ExtendAll(_)
ExtendAll(groups) ==
    IF groups = <<>> THEN Ok(<<>>)
    ELSE LET mi == Get(Head(groups), "menu_items", Some(<<>>))
             rest == ExtendAll(Tail(groups))
         IN  IF mi.null \/ rest.raised THEN Raised
             ELSE Ok(mi.v \o rest.value)

extract_all_items(feed) ==
    IF feed.null \/ DOMAIN feed.v = {} THEN Ok(<<>>)
    ELSE LET mf == Get(feed.v, "menu_feed", Some(EmptyDict))
         IN  IF mf.null THEN Raised          \* None.get: AttributeError
             ELSE LET mg == Get(mf.v, "menu_groups", Some(<<>>))
                  IN  IF mg.null THEN Raised  \* for group in None: TypeError
                      ELSE ExtendAll(mg.v)

(***************************************************************************)
(* Generic helpers                                                         *)
(***************************************************************************)
HasAlpha(s) == \E i \in 1..Len(s) : IsAlpha(CharAt(s, i))

\* prices = item.get("prices", []); the first entry when the list is not empty
HasPrice(item) == Get(item, "prices", <<>>) # <<>>
FirstPrice(item) == Head(Get(item, "prices", <<>>))

\* the same, read from the last price entry
get_price_info_LastEntry(item) ==
    IF HasPrice(item)
    THEN LET prices == Get(item, "prices", <<>>)
             last == prices[Len(prices)]
             unit_raw == Strip(Get(last, "unit", ""))
             unit == IF unit_raw # "" /\ ~HasAlpha(unit_raw)
                     THEN unit_raw \o "g" ELSE unit_raw
         IN  <<unit, Get(last, "price_cents", 0)>>
    ELSE <<"", 0>>
\* (unit, price): the price is kept in cents (see the module comment)
get_price_info(item) ==
    IF HasPrice(item)
    THEN LET unit_raw == Strip(Get(FirstPrice(item), "unit", ""))
             unit == IF unit_raw # "" /\ ~HasAlpha(unit_raw)
                     THEN unit_raw \o "g" ELSE unit_raw
             cents == Get(FirstPrice(item), "price_cents", 0)
         IN  <<unit, cents>>
    ELSE <<"", 0>>

DEFAULT_LINEAGE_MAP ==
    [sativa |-> "S", sativa_hybrid |-> "SH", hybrid |-> "H",
     indica |-> "I", indica_hybrid |-> "IH", cbd |-> "CBD"]

get_lineage_abbr(item) ==
    Get(DEFAULT_LINEAGE_MAP, Lower(GetStr(item, "flower_type")), "")

\* twice the weight of LINEAGE_ORDER, 99 for an unknown abbreviation
get_lineage_order(abbr) ==
    CASE abbr = "S" -> 0
      [] abbr = "SH" -> 1
      [] abbr = "H" -> 2
      [] abbr = "I" -> 4
      [] abbr = "IH" -> 5
      [] abbr = "CBD" -> 6
      [] OTHER -> 2 * 99

(***************************************************************************)
(* Preroll classification                                                  *)
(***************************************************************************)
IsNumChar(c) == IsDigit(c) \/ c = "."

\* re.search(r"([\d.]+)", s): the first maximal run of digits and dots, "" if none
NumToken(s) ==
    IF \E i \in 1..Len(s) : IsNumChar(CharAt(s, i))
    THEN LET first == CHOOSE i \in 1..Len(s) :
                        /\ IsNumChar(CharAt(s, i))
                        /\ \A j \in 1..(i - 1) : ~IsNumChar(CharAt(s, j))
             last == CHOOSE k \in first..Len(s) :
                        /\ \A j \in first..k : IsNumChar(CharAt(s, j))
                        /\ (k = Len(s) \/ ~IsNumChar(CharAt(s, k + 1)))
         IN  SubSeq(s, first, last)
    ELSE ""

RECURSIVE DigitsValue(_)
\* the number written by the digits of tok, its dots skipped
DigitsValue(tok) ==
    IF tok = "" THEN 0
    ELSE LET c == CharAt(tok, Len(tok))
             rest == DigitsValue(SubSeq(tok, 1, Len(tok) - 1))
         IN  IF c = "." THEN rest ELSE 10 * rest + (IndexIn(c, DigitChars) - 1)

RECURSIVE Pow10(_)
Pow10(n) == IF n = 0 THEN 1 ELSE 10 * Pow10(n - 1)

\* float(tok) for a run of digits and dots: ValueError unless it has at most one
\* dot and at least one digit; the value is the fraction num / den
float(tok) ==
    LET dots == {i \in 1..Len(tok) : CharAt(tok, i) = "."}
        digits == {i \in 1..Len(tok) : IsDigit(CharAt(tok, i))}
    IN  IF Cardinality(dots) > 1 \/ digits = {} THEN Raised
        ELSE Ok([num |-> DigitsValue(tok),
                 den |-> IF dots = {} THEN 1
                         ELSE Pow10(Len(tok) - (CHOOSE i \in dots : TRUE))])

\* weight = 0; if prices: m = re.search(...); if m: weight = float(m.group(1))
PrerollWeight(item) ==
    IF HasPrice(item)
    THEN LET tok == NumToken(Lower(Get(FirstPrice(item), "unit", "")))
         IN  IF tok = "" THEN Ok([num |-> 0, den |-> 1]) ELSE float(tok)
    ELSE Ok([num |-> 0, den |-> 1])

\* w >= a/b and w > a/b on fractions
FracGeq(w, a, b) == w.num * b >= a * w.den
FracGt(w, a, b) == w.num * b > a * w.den

PrerollTitle(item) ==
    Lower(IF GetStr(item, "name") # "" THEN GetStr(item, "name")
          ELSE GetStr(item, "strain"))

determine_preroll_category(item) ==
    LET title == PrerollTitle(item)
        product_type == Lower(GetStr(item, "product_type"))
        brand == Lower(GetStr(item, "brand"))
        w == PrerollWeight(item)
    IN  IF w.raised THEN Raised
        ELSE LET weight == w.value
                 is_infused == Contains(product_type, "infused")
                               \/ brand = "portland heights"
                 is_blunt == Contains(title, "blunt") \/ Contains(title, "blunts")
             IN  Ok(
                 IF Contains(product_type, "flavored")
                    \/ Contains(product_type, "combined") THEN "Flavored"
                 ELSE IF Contains(brand, "hellavated") THEN
                    IF Contains(title, "flavored")
                       \/ Contains(product_type, "combined") THEN "Flavored"
                    ELSE IF FracGeq(weight, 15, 10) THEN "Preroll Packs"
                    ELSE IF Contains(title, "blunt") THEN "Infused Blunts"
                    ELSE "Infused Prerolls"
                 ELSE IF FracGt(weight, 29, 10) THEN "Preroll Packs"
                 ELSE IF is_infused /\ is_blunt THEN "Infused Blunts"
                 ELSE IF is_infused THEN "Infused Prerolls"
                 ELSE IF is_blunt THEN "Plain Blunts"
                 ELSE "Plain Prerolls")

\* the keys of cats in group_preroll_items
PrerollBuckets ==
    {"Plain Prerolls", "Plain Blunts", "Infused Prerolls", "Infused Blunts",
     "Flavored", "Preroll Packs"}

RECURSIVE AppendByCategory(_, _)
\* for item in items: cat = determine_preroll_category(item); cats[cat].append(item)
\* (a ValueError of the classifier and a KeyError of cats[cat] end the loop)
AppendByCategory(cats, items) ==
    IF items = <<>> THEN Ok(cats)
    ELSE LET cat == determine_preroll_category(Head(items))
         IN  IF cat.raised THEN Raised
             ELSE IF cat.value \notin DOMAIN cats THEN Raised
             ELSE AppendByCategory(
                    [cats EXCEPT ![cat.value] = Append(@, Head(items))],
                    Tail(items))

group_preroll_items(feed) ==
    LET all == extract_all_items(feed)
    IN  IF all.raised THEN Raised
        ELSE AppendByCategory([c \in PrerollBuckets |-> <<>>], all.value)

(***************************************************************************)
(* sorted(): Python's stable sort, as a stable insertion sort.  Less is    *)
(* the order of the sort keys; an element goes before the first element    *)
(* that is greater, so equal keys keep their input order.                  *)
(***************************************************************************)
InsertBy(done, x, Less(_, _)) ==
    LET later == {i \in 1..Len(done) : Less(x, done[i])}
        at == IF later = {} THEN Len(done) + 1
              ELSE CHOOSE i \in later : \A j \in later : i <= j
    IN  SubSeq(done, 1, at - 1) \o <<x>> \o SubSeq(done, at, Len(done))

sorted(s, Less(_, _)) ==
    LET acc[n \in 0..Len(s)] ==
            IF n = 0 THEN <<>> ELSE InsertBy(acc[n - 1], s[n], Less)
    IN  acc[Len(s)]

\* dict.setdefault(key, []).append(item) over items: the groups in insertion order
GroupBy(items, KeyOf(_)) ==
    LET acc[n \in 0..Len(items)] ==
            IF n = 0 THEN <<>>
            ELSE LET k == KeyOf(items[n])
                     prev == acc[n - 1]
                 IN  IF \E j \in 1..Len(prev) : prev[j].key = k
                     THEN [j \in 1..Len(prev) |->
                             IF prev[j].key = k
                             THEN [prev[j] EXCEPT !.items = Append(@, items[n])]
                             ELSE prev[j]]
                     ELSE Append(prev, [key |-> k, items |-> <<items[n]>>])
    IN  acc[Len(items)]

\* tuple comparison (number, number, str) and (number, str, str)
LessNNS(a, b) ==
    \/ a[1] < b[1]
    \/ a[1] = b[1] /\ a[2] < b[2]
    \/ a[1] = b[1] /\ a[2] = b[2] /\ StrLess(a[3], b[3])

LessNSS(a, b) ==
    \/ a[1] < b[1]
    \/ a[1] = b[1] /\ StrLess(a[2], b[2])
    \/ a[1] = b[1] /\ a[2] = b[2] /\ StrLess(a[3], b[3])

\* key=lambda i: (get_price_info(i)[1], get_lineage_order(get_lineage_abbr(i)),
\*                (i.get("strain") or "").lower())
ItemSortKey(i) ==
    <<get_price_info(i)[2], get_lineage_order(get_lineage_abbr(i)),
      Lower(GetStr(i, "strain"))>>

ItemLess(a, b) == LessNNS(ItemSortKey(a), ItemSortKey(b))

Reverse(s) == [j \in 1..Len(s) |-> s[Len(s) + 1 - j]]

\* a sort that walks the list backwards: ties come out in reverse input order
SortGroupItems_Unstable(items) == sorted(Reverse(items), ItemLess)
SortGroupItems(items) == sorted(items, ItemLess)

(***************************************************************************)
(* Text measurement and truncation.  Widths are in 1/1000 point:           *)
(* pdfmetrics.stringWidth is size * (sum of the glyph widths) / 1000, the  *)
(* glyph widths being those of the standard Helvetica metrics.  The        *)
(* ellipsis glyph is written "~" in the model; it is 1000 wide in both     *)
(* fonts.                                                                  *)
(***************************************************************************)
Ell == "~"

GlyphWidth(c, font_name) ==
    IF c = Ell THEN 1000
    ELSE IF font_name = "Helvetica" THEN
        CASE Contains("ijl", c) -> 222
          [] Contains(" ./It[]f", c) -> 278
          [] Contains("-r", c) -> 333
          [] Contains("Jcksvxyz", c) -> 500
          [] Contains("0123456789Labdeghnopqu", c) -> 556
          [] Contains("FTZ", c) -> 611
          [] Contains("ABEKPSVXY", c) -> 667
          [] Contains("CDHNRUw", c) -> 722
          [] Contains("GOQ", c) -> 778
          [] Contains("Mm", c) -> 833
          [] c = "W" -> 944
    ELSE \* "Helvetica-Bold"
        CASE Contains(" ./Iijl", c) -> 278
          [] Contains("-ft[]", c) -> 333
          [] c = "r" -> 389
          [] c = "z" -> 500
          [] Contains("0123456789Jaceksvxy", c) -> 556
          [] Contains("FLTZbdghnopqu", c) -> 611
          [] Contains("EPSVXY", c) -> 667
          [] Contains("ABCDHKNRU", c) -> 722
          [] Contains("GOQw", c) -> 778
          [] c = "M" -> 833
          [] c = "m" -> 889
          [] c = "W" -> 944

RECURSIVE GlyphSum(_, _)
GlyphSum(text, font_name) ==
    IF text = "" THEN 0
    ELSE GlyphWidth(CharAt(text, 1), font_name) + GlyphSum(Tail(text), font_name)

stringWidth(text, font_name, font_size) == font_size * GlyphSum(text, font_name)

RECURSIVE TruncLoop(_, _, _, _)
\* while text and stringWidth(text) + ell_w > max_width: text = text[:-1]
TruncLoop(text, max_width, font_name, font_size) ==
    IF text # ""
       /\ stringWidth(text, font_name, font_size)
            + stringWidth(Ell, font_name, font_size) > max_width
    THEN TruncLoop(SubSeq(text, 1, Len(text) - 1), max_width, font_name, font_size)
    ELSE text

truncate_text(text, max_width, font_name, font_size) ==
    IF text = "" THEN ""
    ELSE IF stringWidth(text, font_name, font_size) <= max_width THEN text
    ELSE TruncLoop(text, max_width, font_name, font_size) \o Ell

\* title.split("-", 1)[1].strip() if "-" in title else title.strip()
process_flavored_title(title) ==
    IF title = "" THEN ""
    ELSE IF Contains(title, "-")
    THEN LET at == CHOOSE i \in 1..Len(title) :
                      /\ CharAt(title, i) = "-"
                      /\ \A j \in 1..(i - 1) : CharAt(title, j) # "-"
         IN  Strip(SubSeq(title, at + 1, Len(title)))
    ELSE Strip(title)

process_cart_dab_title(title) == process_flavored_title(title)

(***************************************************************************)
(* Layout blocks (reportlab flowables).  Potency cells (THC, CBD) are not  *)
(* part of the model: a table row holds its product-name cell, the item it *)
(* renders and the cell's background.                                      *)
(***************************************************************************)
Paragraph(text, style) == [kind |-> "Paragraph", text |-> text, style |-> style]
Spacer(height) == [kind |-> "Spacer", height |-> height]
PageBreak == [kind |-> "PageBreak"]
KeepTogether(flow) == [kind |-> "KeepTogether", flow |-> flow]
\* hdr: the column header row; name_col: the index of the product-name column;
\* col_w: that column's width; name_font: the font its body cells are drawn with
Table(hdr, rows, name_col, col_w, name_font, font_size) ==
    [kind |-> "Table", hdr |-> hdr, rows |-> rows, name_col |-> name_col,
     col_w |-> col_w, name_font |-> name_font, font_size |-> font_size]
Row(name, item, background) ==
    [name |-> name, item |-> item, background |-> background]

\* doc.build(elements); pdf_data = buffer.getvalue(): a built document is never
\* zero-length (it starts with the PDF header), an untouched buffer is b""
Built(elements) == Ok([built |-> TRUE, elements |-> elements, pdf_data |-> "%PDF"])
NotBuilt(elements) == Ok([built |-> FALSE, elements |-> elements, pdf_data |-> ""])

\* letter is 612 x 792 points; doc.width = 612 - leftMargin - rightMargin;
\* fw = (doc.width - gap) / 2, in 1/1000 point
DocWidth(margin) == 1000 * (612 - 2 * margin)
FrameWidth(margin, gap) == (DocWidth(margin) - 1000 * gap) \div 2

RECURSIVE IntToStr(_)
IntToStr(n) ==
    IF n < 10 THEN CharAt(DigitChars, n + 1)
    ELSE IntToStr(n \div 10) \o CharAt(DigitChars, (n % 10) + 1)

\* f"${price:.2f}" of price = cents / 100.0
Money(cents) ==
    "$" \o IntToStr(cents \div 100) \o "." \o
    IntToStr((cents % 100) \div 10) \o IntToStr(cents % 10)

IsWordChar(c) == IsAlpha(c) \/ IsDigit(c) \/ c = "_"

\* the end of the run of characters satisfying P that starts at i
RunEnd(t, i, P(_)) ==
    CHOOSE k \in i..Len(t) :
        /\ \A j \in i..k : P(CharAt(t, j))
        /\ (k = Len(t) \/ ~P(CharAt(t, k + 1)))

IsSpace(c) == c = " "

\* whether (\d+)\s*(?:pk|pack)\b, ignoring case, matches at position i
PackMatchAt(t, i) ==
    /\ IsDigit(CharAt(t, i))
    /\ LET j == RunEnd(t, i, IsDigit)
           k == IF j < Len(t) /\ IsSpace(CharAt(t, j + 1))
                THEN RunEnd(t, j + 1, IsSpace) ELSE j
           rest == Lower(SubSeq(t, k + 1, Len(t)))
           Boundary(n) == n > Len(rest) \/ ~IsWordChar(CharAt(rest, n))
       IN  \/ StartsWith(rest, "pk") /\ Boundary(3)
           \/ StartsWith(rest, "pack") /\ Boundary(5)

\* the digits of the leftmost match, "" for no match (None)
extract_pack_size(title) ==
    LET at == {i \in 1..Len(title) : PackMatchAt(title, i)}
    IN  IF at = {} THEN ""
        ELSE LET i == CHOOSE i \in at : \A j \in at : i <= j
             IN  SubSeq(title, i, RunEnd(title, i, IsDigit))

(***************************************************************************)
(* Preroll documents                                                       *)
(***************************************************************************)
\* the order lists of generate_preroll_pdf and generate_preroll_pdf_condensed
PrerollOrder ==
    <<"Plain Prerolls", "Plain Blunts", "Infused Prerolls", "Infused Blunts",
      "Flavored", "Preroll Packs">>

\* [c for c in order if grouped_data.get(c)]
FilterSeq(s, P(_)) ==
    LET acc[n \in 0..Len(s)] ==
            IF n = 0 THEN <<>>
            ELSE IF P(s[n]) THEN Append(acc[n - 1], s[n]) ELSE acc[n - 1]
    IN  acc[Len(s)]

PrerollCats(grouped_data) ==
    LET NonEmpty(c) == Get(grouped_data, c, <<>>) # <<>>
    IN  FilterSeq(PrerollOrder, NonEmpty)

\* the grouping of preroll items: key (brand.strip(), unit of get_price_info)
BrandUnitKey(item) == <<Strip(GetStr(item, "brand")), get_price_info(item)[1]>>

group_by_brand_unit(items) == GroupBy(items, BrandUnitKey)

\* min(get_price_info(i)[1] for i in items)
MinPrice(items) ==
    LET ps == {get_price_info(items[i])[2] : i \in 1..Len(items)}
    IN  CHOOSE m \in ps : \A q \in ps : m <= q

\* key=lambda k: (min(...), k[0].lower(), k[1].lower())
PrerollGroupKey(g) == <<MinPrice(g.items), Lower(g.key[1]), Lower(g.key[2])>>

PrerollGroupLess(g, h) == LessNSS(PrerollGroupKey(g), PrerollGroupKey(h))

\* gmap with its lists sorted, the groups left in the order gmap holds them
PrerollGroups_Unsorted(items) ==
    LET gmap == group_by_brand_unit(items)
    IN  [j \in 1..Len(gmap) |-> [gmap[j] EXCEPT !.items = SortGroupItems(@)]]
\* gmap with its lists sorted, in the order of sorted_keys
PrerollGroups(items) ==
    LET gmap == group_by_brand_unit(items)
        sorted_items == [j \in 1..Len(gmap) |->
                           [gmap[j] EXCEPT !.items = SortGroupItems(@)]]
    IN  sorted(sorted_items, PrerollGroupLess)

PrerollHeading(g) ==
    LET subitems == g.items
        min_price == get_price_info(subitems[1])[2]
        pack_sz == extract_pack_size(GetStr(subitems[1], "name"))
    IN  g.key[1] \o " " \o g.key[2] \o " " \o Money(min_price)
        \o (IF pack_sz # "" THEN " " \o pack_sz \o " pack" ELSE "")

PrerollHdr(cat) ==
    IF Contains(Lower(cat), "infused") \/ cat = "Flavored"
    THEN <<"Product Name", "THC MG", "CBD MG">>
    ELSE <<"Product Name", "THC %", "CBD %">>

PrerollTable(cat, g, fw, font_size) ==
    LET col_w == fw \div 2
        RowOf(it) ==
            LET name == IF cat = "Flavored"
                        THEN process_flavored_title(GetStr(it, "name"))
                        ELSE GetStr(it, "strain")
            IN  Row(truncate_text(name, col_w, "Helvetica", font_size), it, "")
    IN  Table(PrerollHdr(cat), [j \in 1..Len(g.items) |-> RowOf(g.items[j])],
              1, col_w, "Helvetica", font_size)

generate_preroll_pdf(grouped_data, font_size) ==
    LET fw == FrameWidth(24, 12)
        SubFlow(cat, g) ==
            KeepTogether(<<Paragraph(PrerollHeading(g), "SubHeader"), Spacer(6),
                           PrerollTable(cat, g, fw, font_size), Spacer(12)>>)
        CatBlocks(cat) ==
            LET groups == PrerollGroups(grouped_data[cat])
            IN  <<KeepTogether(<<Paragraph(cat, "CatHeader"), Spacer(12)>>
                     \o [j \in 1..Len(groups) |-> SubFlow(cat, groups[j])]),
                  Spacer(24)>>
        cats == PrerollCats(grouped_data)
    IN  Built(Flatten([j \in 1..Len(cats) |-> CatBlocks(cats[j])]))

generate_preroll_pdf_condensed(grouped_data) ==
    LET fw == FrameWidth(18, 10)
        GroupFlow(cat, g) ==
            KeepTogether(<<Paragraph(PrerollHeading(g), "SubH"), Spacer(2),
                           PrerollTable(cat, g, fw, 9), Spacer(4)>>)
        cats == PrerollCats(grouped_data)
        elements[n \in 0..Len(cats)] ==
            IF n = 0 THEN <<>>
            ELSE LET cat == cats[n]
                     groups == PrerollGroups(grouped_data[cat])
                     before == elements[n - 1]
                 IN  before
                     \o (IF cat \in {"Infused Prerolls", "Preroll Packs"}
                            /\ before # <<>>
                         THEN <<PageBreak>> ELSE <<>>)
                     \o <<Paragraph(cat, "CatH"), Spacer(2)>>
                     \o [j \in 1..Len(groups) |-> GroupFlow(cat, groups[j])]
                     \o <<Spacer(8)>>
    IN  Built(elements[Len(cats)])

(***************************************************************************)
(* Cart and dab documents                                                  *)
(***************************************************************************)
is_thc_mg_item(item) ==
    LET product_type == Lower(GetStr(item, "product_type"))
        title == Lower(GetStr(item, "name"))
    IN  \E term \in {"flavored", "combined", "concentrate"} :
            Contains(product_type, term) \/ Contains(title, term)

is_flavored_item(item) ==
    LET product_type == Lower(GetStr(item, "product_type"))
        name == Lower(GetStr(item, "name"))
    IN  \/ Contains(product_type, "flavored")
        \/ Contains(product_type, "combined")
        \/ Contains(name, "flavored")

is_disposable_item(item) ==
    LET name == Lower(GetStr(item, "name"))
    IN  \E keyword \in {"dispos", "all in one", "all-in-one", "allinone"} :
            Contains(name, keyword)

BrandUnitPriceKey(item) ==
    <<Strip(GetStr(item, "brand")), get_price_info(item)[1], get_price_info(item)[2]>>

group_by_brand_unit_price(items) == GroupBy(items, BrandUnitPriceKey)

\* key=lambda k: (k[2], k[0].lower(), k[1].lower())
CartGroupKey(g) == <<g.key[3], Lower(g.key[1]), Lower(g.key[2])>>

CartGroupLess(g, h) == LessNSS(CartGroupKey(g), CartGroupKey(h))

\* the groups in the order group_map holds them, their lists sorted
sort_cart_dab_groups_Unsorted(items) ==
    LET group_map == group_by_brand_unit_price(items)
    IN  [j \in 1..Len(group_map) |-> [group_map[j] EXCEPT !.items = SortGroupItems(@)]]
\* the list of (brand, unit, price, sorted items), as records key / items
sort_cart_dab_groups(items) ==
    LET group_map == group_by_brand_unit_price(items)
        sorted_keys == sorted(group_map, CartGroupLess)
    IN  [j \in 1..Len(sorted_keys) |->
            [sorted_keys[j] EXCEPT !.items = SortGroupItems(@)]]

CartHeading(g) == g.key[1] \o " " \o g.key[2] \o " " \o Money(g.key[3])

\* the header row chosen from the first item of the group only
CartHdr_FirstItemOnly(subitems) ==
    IF is_thc_mg_item(subitems[1])
    THEN <<"Product Name", "THC MG", "CBD MG">>
    ELSE <<"Product Name", "THC %", "CBD %">>
CartHdr(subitems) ==
    IF \E j \in 1..Len(subitems) : is_thc_mg_item(subitems[j])
    THEN <<"Product Name", "THC MG", "CBD MG">>
    ELSE <<"Product Name", "THC %", "CBD %">>

CartTable(g, fw, font_size) ==
    LET col_w == fw \div 2
        RowOf(it) ==
            Row(truncate_text(process_cart_dab_title(GetStr(it, "name")),
                              col_w, "Helvetica", font_size), it, "")
    IN  Table(CartHdr(g.items), [j \in 1..Len(g.items) |-> RowOf(g.items[j])],
              1, col_w, "Helvetica", font_size)

generate_cart_dab_pdf(items, menu_title, font_size) ==
    LET fw == FrameWidth(24, 12)
        groups == sort_cart_dab_groups(items)
        SubFlow(g) ==
            KeepTogether(<<Paragraph(CartHeading(g), "SubHeader"), Spacer(6),
                           CartTable(g, fw, font_size), Spacer(12)>>)
    IN  Built(<<Paragraph(menu_title, "Header"), Spacer(12)>>
              \o [j \in 1..Len(groups) |-> SubFlow(groups[j])])

\* render_section with the table of a group put before its subheader
render_section_TableFirst(elements, title, items_list, page_break, is_main_header) ==
    IF items_list = <<>> THEN elements
    ELSE LET fw == FrameWidth(18, 10)
             groups_to_render == sort_cart_dab_groups(items_list)
             GroupFlow(g) ==
                KeepTogether(<<CartTable(g, fw, 9), Paragraph(CartHeading(g), "Sub"),
                               Spacer(2), Spacer(4)>>)
         IN  elements
             \o (IF page_break /\ elements # <<>> THEN <<PageBreak>> ELSE <<>>)
             \o <<Paragraph(title, IF is_main_header THEN "Head" ELSE "Sub"),
                  Spacer(4)>>
             \o [j \in 1..Len(groups_to_render) |-> GroupFlow(groups_to_render[j])]
\* render_section: what it appends to elements
render_section(elements, title, items_list, page_break, is_main_header) ==
    IF items_list = <<>> THEN elements
    ELSE LET fw == FrameWidth(18, 10)
             groups_to_render == sort_cart_dab_groups(items_list)
             GroupFlow(g) ==
                KeepTogether(<<Paragraph(CartHeading(g), "Sub"), Spacer(2),
                               CartTable(g, fw, 9), Spacer(4)>>)
         IN  elements
             \o (IF page_break /\ elements # <<>> THEN <<PageBreak>> ELSE <<>>)
             \o <<Paragraph(title, IF is_main_header THEN "Head" ELSE "Sub"),
                  Spacer(4)>>
             \o [j \in 1..Len(groups_to_render) |-> GroupFlow(groups_to_render[j])]

\* the four lists without the exclusions: a flavored disposable joins three lists
CartSections_NoPrecedence(items) ==
    LET FlavDisp(i) == is_disposable_item(i) /\ is_flavored_item(i)
        Plain(i) == ~is_disposable_item(i) /\ ~is_flavored_item(i)
    IN  [carts |-> FilterSeq(items, Plain),
         flavored_carts |-> FilterSeq(items, is_flavored_item),
         disposables |-> FilterSeq(items, is_disposable_item),
         flavored_disposables |-> FilterSeq(items, FlavDisp)]
\* the four lists of the cart branch
CartSections(items) ==
    LET FlavDisp(i) == is_disposable_item(i) /\ is_flavored_item(i)
        Disp(i) == is_disposable_item(i) /\ ~is_flavored_item(i)
        Flav(i) == ~is_disposable_item(i) /\ is_flavored_item(i)
        Plain(i) == ~is_disposable_item(i) /\ ~is_flavored_item(i)
    IN  [carts |-> FilterSeq(items, Plain),
         flavored_carts |-> FilterSeq(items, Flav),
         disposables |-> FilterSeq(items, Disp),
         flavored_disposables |-> FilterSeq(items, FlavDisp)]

generate_cart_dab_pdf_condensed(items, menu_title) ==
    IF Contains(Upper(menu_title), "CART")
    THEN LET sec == CartSections(items)
             e1 == render_section(<<>>, "CARTS", sec.carts, FALSE, TRUE)
             e2 == render_section(e1, "FLAVORED CARTS", sec.flavored_carts,
                                  FALSE, FALSE)
             e3 == render_section(e2, "DISPOSABLES", sec.disposables, TRUE, TRUE)
             e4 == render_section(e3, "FLAVORED DISPOSABLES",
                                  sec.flavored_disposables, FALSE, FALSE)
         IN  Built(e4)
    ELSE Built(render_section(<<>>, menu_title, items, FALSE, TRUE))

(***************************************************************************)
(* Prepack documents                                                       *)
(***************************************************************************)
get_special_designation(item) ==
    LET name_lower == Lower(GetStr(item, "name"))
    IN  IF Contains(name_lower, "last of flower") /\ Contains(name_lower, "as is")
        THEN "Last of Flower / As Is"
        ELSE IF Contains(name_lower, "shake") THEN "Shake"
        ELSE ""

\* item.get("prices", [{}])[0] raises IndexError on an empty list
PrepackKeyRaises(item) == "prices" \in DOMAIN item /\ item.prices = <<>>

PrepackSortKey(item) ==
    <<Get(Head(Get(item, "prices", <<EmptyDict>>)), "price_cents", 999999),
      get_lineage_order(get_lineage_abbr(item)),
      Lower(Strip(GetStr(item, "strain")))>>

PrepackLess(a, b) == LessNNS(PrepackSortKey(a), PrepackSortKey(b))

sort_items_by_price_and_lineage(items) ==
    IF \E j \in 1..Len(items) : PrepackKeyRaises(items[j]) THEN Raised
    ELSE Ok(sorted(items, PrepackLess))

\* shake, regular, last_of
PrepackLists(items) ==
    LET IsShake(i) == get_special_designation(i) = "Shake"
        IsLast(i) == get_special_designation(i) = "Last of Flower / As Is"
        IsRegular(i) == ~IsShake(i) /\ ~IsLast(i)
    IN  [shake |-> FilterSeq(items, IsShake),
         regular |-> FilterSeq(items, IsRegular),
         last_of |-> FilterSeq(items, IsLast)]

\* create_table / make_table: the strain cell is measured in Helvetica and its
\* style is then set to Helvetica-Bold
PrepackTable(hdr, data_items, col_w, font_size) ==
    LET RowOf(it) ==
            Row(truncate_text(GetStr(it, "strain"), col_w, "Helvetica", font_size),
                it, "")
    IN  Table(hdr, [j \in 1..Len(data_items) |-> RowOf(data_items[j])],
              4, col_w, "Helvetica-Bold", font_size)

generate_prepack_pdf(items, font_size) ==
    LET lists == PrepackLists(items)
        shake == sort_items_by_price_and_lineage(lists.shake)
        regular == sort_items_by_price_and_lineage(lists.regular)
        last_of == sort_items_by_price_and_lineage(lists.last_of)
        col_w == (DocWidth(36) * 40) \div 100
        hdr == <<"Lineage", "Price", "Grams", "Strain Name", "THC">>
    IN  IF shake.raised \/ regular.raised \/ last_of.raised THEN Raised
        ELSE LET any_added == shake.value # <<>> \/ regular.value # <<>>
                 elements ==
                    <<Paragraph("Prepack Specials", "MainHeader")>>
                    \o (IF shake.value # <<>>
                        THEN <<Paragraph("Shake", "SectionHeader"),
                               PrepackTable(hdr, shake.value, col_w, font_size),
                               Spacer(12)>>
                        ELSE <<>>)
                    \o (IF regular.value # <<>>
                        THEN <<Paragraph("Regular Prepacks", "SectionHeader"),
                               PrepackTable(hdr, regular.value, col_w, font_size)>>
                        ELSE <<>>)
                    \o (IF last_of.value # <<>>
                        THEN (IF any_added THEN <<PageBreak>> ELSE <<>>)
                             \o <<Paragraph("Last Of Flower / As Is", "SectionHeader"),
                                  PrepackTable(hdr, last_of.value, col_w, font_size)>>
                        ELSE <<>>)
             IN  IF any_added \/ last_of.value # <<>>
                 THEN Built(elements) ELSE NotBuilt(elements)

generate_prepack_pdf_condensed(items) ==
    LET lists == PrepackLists(items)
        fw == FrameWidth(18, 10)
        col_w == (fw * 4) \div 10
        hdr == <<"Lin.", "Price", "Grams", "Strain", "THC">>
        sections == <<[label |-> "Shake", items_list |-> lists.shake],
                      [label |-> "Regular Prepacks", items_list |-> lists.regular],
                      [label |-> "Last Of Flower / As Is", items_list |-> lists.last_of]>>
        \* the elements after the first n sections, or that the sort raised
        loop[n \in 0..Len(sections)] ==
            IF n = 0 THEN Ok(<<Paragraph("PREPACK MENU", "Head"), Spacer(4)>>)
            ELSE LET before == loop[n - 1]
                     srt == sort_items_by_price_and_lineage(sections[n].items_list)
                 IN  IF before.raised THEN Raised
                     ELSE IF sections[n].items_list = <<>> THEN before
                     ELSE IF srt.raised THEN Raised
                     ELSE Ok(Append(before.value,
                            KeepTogether(<<Paragraph(sections[n].label, "Section"),
                                           Spacer(2),
                                           PrepackTable(hdr, srt.value, col_w, 9),
                                           Spacer(4)>>)))
        elements == loop[Len(sections)]
    IN  IF elements.raised THEN Raised
        ELSE IF Len(elements.value) > 2 THEN Built(elements.value)
        ELSE NotBuilt(elements.value)

(***************************************************************************)
(* Flower document                                                         *)
(***************************************************************************)
PRICING ==
    [Diamond |->
        [REC |-> "Gram - $15, Eighth - $45, Quarter - $80, Half-Oz - $145, Ounce - $270",
         MED |-> "Gram - $12.50, Eighth - $37.50, Quarter - $66.67, Half-Oz - $120.83, Ounce - $225"],
     Platinum |->
        [REC |-> "Gram - $14.00, Eighth - $40.00, Quarter - $72.00, Half-Oz - $135.00, Ounce - $250.00",
         MED |-> "Gram - $11.67, Eighth - $33.33, Quarter - $60.00, Half-Oz - $112.50, Ounce - $208.33"],
     Gold |->
        [REC |-> "Gram - $6, Eighth - $18, Quarter - $34, Half-Oz - $65, Ounce - $125",
         MED |-> "Gram - $5, Eighth - $14.40, Quarter - $28.33, Half-Oz - $54.17, Ounce - $104.17"]]

ALLOWED_ROOMS == {"Floor Stock", "Floor Stock : Diamond"}

Tiers == <<"Diamond", "Platinum", "Gold">>

extract_flower_data(feed) ==
    LET all == extract_all_items(feed)
        Allowed(item) ==
            LET rooms == Get(item, "rooms", <<>>)
            IN  rooms = <<>> \/ \E j \in 1..Len(rooms) : rooms[j] \in ALLOWED_ROOMS
    IN  IF all.raised THEN Raised ELSE Ok(FilterSeq(all.value, Allowed))

is_foster_special(item, special_type) ==
    LET tags == Get(item, "tag_list", <<>>)
    IN  \E j \in 1..Len(tags) :
            Contains(tags[j], special_type) /\ Contains(tags[j], "Foster")

\* item.get("tier_name", "").strip() raises AttributeError on a null tier_name
filter_by_tier(items, tier) ==
    LET InTier(item) == Lower(Strip(GetStr(item, "tier_name"))) = Lower(tier)
    IN  IF \E j \in 1..Len(items) : IsNone(items[j], "tier_name") THEN Raised
        ELSE Ok(FilterSeq(items, InTier))

\* key (group_order, strain), strain being the stripped, lower-cased name
FlowerSortKey(item) ==
    <<get_lineage_order(get_lineage_abbr(item)), Lower(Strip(GetStr(item, "name")))>>

FlowerLess(a, b) ==
    LET ka == FlowerSortKey(a)
        kb == FlowerSortKey(b)
    IN  ka[1] < kb[1] \/ (ka[1] = kb[1] /\ StrLess(ka[2], kb[2]))

sort_flower_items(items) == sorted(items, FlowerLess)

RECURSIVE Replace(_, _, _)
\* s.replace(old, new)
Replace(s, old, new) ==
    IF Len(s) < Len(old) THEN s
    ELSE IF StartsWith(s, old)
    THEN new \o Replace(SubSeq(s, Len(old) + 1, Len(s)), old, new)
    ELSE CharAt(s, 1) \o Replace(Tail(s), old, new)

\* the background of the strain cell: yellow for a "Last Chance" tag, else
\* lightblue for a "Manager Special" tag, else none
\* the two tests in the other order
FlowerBackground_FiftyFirst(item) ==
    IF is_foster_special(item, "Manager Special") THEN "lightblue"
    ELSE IF is_foster_special(item, "Last Chance") THEN "yellow"
    ELSE ""
FlowerBackground(item) ==
    IF is_foster_special(item, "Last Chance") THEN "yellow"
    ELSE IF is_foster_special(item, "Manager Special") THEN "lightblue"
    ELSE ""

FlowerTable(tier_items, font_size) ==
    LET col_w == (DocWidth(36) * 35) \div 100
        farm_w == (DocWidth(36) * 25) \div 100
        RowOf(item) ==
            [name |-> truncate_text(Replace(GetStr(item, "name"), " [Gold]", ""),
                                    col_w - 1000 * font_size, "Helvetica", font_size),
             farm |-> truncate_text(GetStr(item, "brand"),
                                    farm_w - 1000 * font_size, "Helvetica", font_size),
             item |-> item,
             background |-> FlowerBackground(item)]
        rows == sort_flower_items(tier_items)
    IN  Table(<<"Lineage", "Strain", "Farm", "THC%", "CBD%">>,
              [j \in 1..Len(rows) |-> RowOf(rows[j])],
              2, col_w, "Helvetica", font_size)

Legend ==
    [kind |-> "Legend",
     cells |-> <<"Last Chance Special 30% OFF", "Manager Special 50% OFF">>]

generate_flower_pdf(items, font_size) ==
    LET all_flowables[n \in 0..Len(Tiers)] ==
            IF n = 0 THEN <<>>
            ELSE LET tier == Tiers[n]
                     tier_items == filter_by_tier(items, tier).value
                     before == all_flowables[n - 1]
                 IN  IF tier_items = <<>> THEN before
                     ELSE before
                          \o <<Paragraph(Upper(tier) \o " SHELF", "Header"),
                               Spacer(12),
                               Paragraph("REC: " \o PRICING[tier].REC, "Pricing"),
                               Paragraph("MED: " \o PRICING[tier].MED, "Pricing"),
                               Spacer(12),
                               FlowerTable(tier_items, font_size),
                               Spacer(12),
                               Legend>>
                          \o (IF n - 1 < 2 THEN <<PageBreak>> ELSE <<>>)
        result == all_flowables[Len(Tiers)]
    IN  IF filter_by_tier(items, Tiers[1]).raised THEN Raised
        ELSE IF result # <<>> THEN Built(result) ELSE NotBuilt(result)

(***************************************************************************)
(* The inputs: stores, menu choices, and the feeds of each product line    *)
(***************************************************************************)
\* the keys of STORE_CONFIG
Stores == {"foster", "sandy", "division"}

\* MENU_GENERATOR_MAP: the extractor and the generator of each menu choice
MENU_GENERATOR_MAP ==
    [flower |-> [data_extractor |-> "extract_flower_data",
                 pdf_generator |-> "generate_flower_pdf"],
     preroll |-> [data_extractor |-> "group_preroll_items",
                  pdf_generator |-> "generate_preroll_pdf"],
     preroll_condensed |-> [data_extractor |-> "group_preroll_items",
                            pdf_generator |-> "generate_preroll_pdf_condensed"],
     cart |-> [data_extractor |-> "extract_all_items",
               pdf_generator |-> "generate_cart_dab_pdf"],
     cart_condensed |-> [data_extractor |-> "extract_all_items",
                         pdf_generator |-> "generate_cart_dab_pdf_condensed"],
     dab |-> [data_extractor |-> "extract_all_items",
              pdf_generator |-> "generate_cart_dab_pdf"],
     dab_condensed |-> [data_extractor |-> "extract_all_items",
                        pdf_generator |-> "generate_cart_dab_pdf_condensed"],
     prepack |-> [data_extractor |-> "extract_all_items",
                  pdf_generator |-> "generate_prepack_pdf"],
     prepack_condensed |-> [data_extractor |-> "extract_all_items",
                            pdf_generator |-> "generate_prepack_pdf_condensed"]]

MenuChoices == DOMAIN MENU_GENERATOR_MAP

\* the title the cart and dab lambdas of MENU_GENERATOR_MAP pass
MenuTitle(choice) ==
    IF choice \in {"cart", "cart_condensed"} THEN "CART MENU" ELSE "DAB MENU"

\* menu_choice.split('_')[0]
ApiMenuType(choice) ==
    IF Contains(choice, "_")
    THEN LET at == CHOOSE i \in 1..Len(choice) :
                      /\ CharAt(choice, i) = "_"
                      /\ \A j \in 1..(i - 1) : CharAt(choice, j) # "_"
         IN  SubSeq(choice, 1, at - 1)
    ELSE choice

Price(unit, cents) == <<[unit |-> unit, price_cents |-> cents]>>

PrerollPool ==
    {[name |-> "Acme - Apex", strain |-> "Apex", brand |-> "Acme",
      product_type |-> "Preroll", flower_type |-> "sativa", prices |-> Price("1", 800)],
     [name |-> "Acme - Zinc", strain |-> "Zinc", brand |-> "Acme",
      product_type |-> "Preroll", flower_type |-> "Sativa", prices |-> Price("1", 800)],
     [name |-> "Brand - Apple", strain |-> "Apple", brand |-> "Brand",
      product_type |-> "infused", prices |-> Price("1", 1500)],
     [name |-> "Brand - Blueberry 2pk", strain |-> "Blueberry", brand |-> "Brand",
      product_type |-> "infused", prices |-> Price("1", 1500)],
     [name |-> "Acme Blunt", strain |-> "Blue", brand |-> " acme ",
      product_type |-> "Preroll", flower_type |-> "indica", prices |-> Price("1g", 600)],
     [name |-> "Hellavated - Duo", strain |-> "Duo", brand |-> "Hellavated",
      product_type |-> "infused", flower_type |-> "hybrid", prices |-> Price("2", 1500)],
     [name |-> "Acme - Flavored Grape", strain |-> "Grape", brand |-> "Acme",
      product_type |-> "Flavored Preroll", prices |-> Price("1", 900)],
     [name |-> "Acme - Mix 5 pack", strain |-> "Mix", brand |-> "Acme",
      product_type |-> "Preroll", flower_type |-> "hybrid", prices |-> Price("3.5g", 2000)],
     [name |-> "Acme - Odd", strain |-> "Odd", brand |-> "Acme",
      product_type |-> "Preroll", prices |-> Price("1.2.3", 800)],
     [name |-> "Portland Heights - Bare Blunt", strain |-> "Bare",
      brand |-> "Portland Heights", product_type |-> "Preroll"]}

CartPool ==
    {[name |-> "Acme - Lemon", strain |-> "Lemon", brand |-> "Acme",
      product_type |-> "cartridge", flower_type |-> "hybrid", prices |-> Price("1", 3000)],
     [name |-> "Acme - Apex", strain |-> "Apex", brand |-> "Acme ",
      product_type |-> "cartridge", flower_type |-> "hybrid", prices |-> Price("1", 3000)],
     [name |-> "ACME - Berry Disposable", strain |-> "Berry", brand |-> "ACME",
      product_type |-> "flavored cartridge", prices |-> Price("1", 3000)],
     [name |-> "Zed - All In One", strain |-> "Haze", brand |-> "Zed",
      product_type |-> "cartridge", flower_type |-> "sativa", prices |-> Price("0.5", 2000)],
     [name |-> "Zed - Flavored Mango", strain |-> "Mango", brand |-> "Zed",
      product_type |-> "cartridge", prices |-> Price("1G", 3000)],
     [name |-> "Acme - Lemon Live", strain |-> "lemon", brand |-> "Acme",
      product_type |-> "cartridge", flower_type |-> "Hybrid", prices |-> Price("1", 3000)],
     [name |-> "Zed - Combined Bare", strain |-> "Bare", brand |-> "Zed",
      product_type |-> "cartridge", prices |-> <<[unit |-> "1"]>>]}

DabPool ==
    {[name |-> "Zed - Rosin", strain |-> "Rosin", brand |-> "Zed",
      product_type |-> "Concentrate", flower_type |-> "indica", prices |-> Price("1", 2500)],
     [name |-> "Zed - Wax", strain |-> "rosin", brand |-> "Zed",
      product_type |-> "wax", flower_type |-> "Indica", prices |-> Price("1", 2500)],
     [name |-> "Acme - Shatter", strain |-> "Shatter", brand |-> "Acme",
      product_type |-> "shatter", prices |-> Price("0.5g", 2500)]}

\* a strain name that fits its column in Helvetica and not in Helvetica-Bold
LongStrain == "mmmmmmmmmmmmmmmmmmmmmmmmmmmm"

PrepackPool ==
    {[name |-> "Acme Shake 14g", strain |-> "Apex", brand |-> "Acme",
      flower_type |-> "sativa", prices |-> Price("14", 2000)],
     [name |-> "Acme Zinc 3.5g", strain |-> " Zinc", brand |-> "Acme",
      flower_type |-> "sativa", prices |-> Price("3.5", 2000)],
     [name |-> "Acme Apex 3.5g", strain |-> "apex", brand |-> "Acme",
      flower_type |-> "Sativa", prices |-> Price("3.5", 2000)],
     [name |-> "Last of Flower - Blue - As Is", strain |-> "Blue", brand |-> "Acme",
      flower_type |-> "indica", prices |-> Price("7", 1000)],
     [name |-> "Acme Long 3.5g", strain |-> LongStrain, brand |-> "Acme",
      prices |-> <<[unit |-> "3.5"]>>],
     [name |-> "Acme Bare 3.5g", strain |-> "Bare", brand |-> "Acme"],
     [name |-> "Acme Void 3.5g", strain |-> "Void", brand |-> "Acme",
      prices |-> <<>>]}

FlowerPool ==
    {[name |-> "Apex", brand |-> "Acme", flower_type |-> "sativa",
      tier_name |-> "Diamond", tag_list |-> <<"Last Chance Foster">>,
      rooms |-> <<"Floor Stock : Diamond">>, prices |-> Price("1", 1500)],
     [name |-> "Zinc [Gold]", brand |-> "Acme", flower_type |-> "sativa",
      tier_name |-> " gold ", tag_list |-> <<"Manager Special Foster">>],
     [name |-> "Blue", brand |-> "Zed", flower_type |-> "indica",
      tier_name |-> "Platinum", tag_list |-> <<"Last Chance Sandy">>],
     [name |-> "apex", brand |-> "Zed", flower_type |-> "Sativa",
      tier_name |-> "Diamond", prices |-> Price("1", 1200),
      tag_list |-> <<"Manager Special Foster", "Last Chance Foster">>],
     [name |-> "Haze", brand |-> "Zed", tier_name |-> "Diamond",
      tag_list |-> <<"Staff Pick">>, rooms |-> <<"Back Room">>],
     [name |-> "Kush", brand |-> "Zed", flower_type |-> "hybrid",
      tier_name |-> "Silver", rooms |-> <<"Back Room", "Floor Stock">>],
     [name |-> "Void", brand |-> "Zed", flower_type |-> "hybrid",
      none_keys |-> {"tier_name"}]}

Pool(api_menu_type) ==
    CASE api_menu_type = "flower" -> FlowerPool
      [] api_menu_type = "preroll" -> PrerollPool
      [] api_menu_type = "prepack" -> PrepackPool
      [] api_menu_type = "dab" -> DabPool
      [] OTHER -> CartPool

\* a well-formed feed of one menu group
FeedOf(items) ==
    Some([menu_feed |-> Some([menu_groups |-> Some(<<[menu_items |-> Some(items)]>>)])])

\* whether every level of the feed is present and not null
WellFormed(feed) ==
    /\ ~feed.null
    /\ "menu_feed" \in DOMAIN feed.v /\ ~feed.v.menu_feed.null
    /\ "menu_groups" \in DOMAIN feed.v.menu_feed.v
    /\ ~feed.v.menu_feed.v.menu_groups.null
    /\ \A j \in 1..Len(feed.v.menu_feed.v.menu_groups.v) :
          LET g == feed.v.menu_feed.v.menu_groups.v[j]
          IN  "menu_items" \in DOMAIN g /\ ~g.menu_items.null

\* the items of a well-formed feed, group after group
FeedItems(feed) ==
    LET gs == feed.v.menu_feed.v.menu_groups.v
    IN  Flatten([j \in 1..Len(gs) |-> gs[j].menu_items.v])

(***************************************************************************)
(* The generation of one menu: the data extractor of the menu choice is    *)
(* applied to the fetched feed, then its PDF generator to the result.      *)
(***************************************************************************)
Pending == [raised |-> FALSE, pending |-> TRUE]

Init ==
    /\ pc = "fetched"
    /\ store \in Stores
    /\ menu_choice \in MenuChoices
    /\ menu_feed \in {FeedOf(items) :
                        items \in SeqsUpTo(Pool(ApiMenuType(menu_choice)), MaxItems)}
    /\ processed_data = Pending
    /\ pdf = Pending

Extract(name, result) ==
    /\ pc = "fetched"
    /\ MENU_GENERATOR_MAP[menu_choice].data_extractor = name
    /\ processed_data' = result
    /\ pc' = IF result.raised THEN "raised" ELSE "extracted"
    /\ UNCHANGED <<store, menu_choice, menu_feed, pdf>>

ExtractAllItems == Extract("extract_all_items", extract_all_items(menu_feed))
GroupPrerollItems == Extract("group_preroll_items", group_preroll_items(menu_feed))
ExtractFlowerData == Extract("extract_flower_data", extract_flower_data(menu_feed))

Generate(name, result) ==
    /\ pc = "extracted"
    /\ MENU_GENERATOR_MAP[menu_choice].pdf_generator = name
    /\ pdf' = result
    /\ pc' = IF result.raised THEN "raised" ELSE "generated"
    /\ UNCHANGED <<store, menu_choice, menu_feed, processed_data>>

\* the generators are called with their default font sizes
GenerateFlowerPdf ==
    Generate("generate_flower_pdf", generate_flower_pdf(processed_data.value, 12))
GeneratePrerollPdf ==
    Generate("generate_preroll_pdf", generate_preroll_pdf(processed_data.value, 12))
GeneratePrerollPdfCondensed ==
    Generate("generate_preroll_pdf_condensed",
             generate_preroll_pdf_condensed(processed_data.value))
GenerateCartDabPdf ==
    Generate("generate_cart_dab_pdf",
             generate_cart_dab_pdf(processed_data.value, MenuTitle(menu_choice), 12))
GenerateCartDabPdfCondensed ==
    Generate("generate_cart_dab_pdf_condensed",
             generate_cart_dab_pdf_condensed(processed_data.value, MenuTitle(menu_choice)))
GeneratePrepackPdf ==
    Generate("generate_prepack_pdf", generate_prepack_pdf(processed_data.value, 9))
GeneratePrepackPdfCondensed ==
    Generate("generate_prepack_pdf_condensed",
             generate_prepack_pdf_condensed(processed_data.value))

Next ==
    \/ ExtractAllItems
    \/ GroupPrerollItems
    \/ ExtractFlowerData
    \/ GenerateFlowerPdf
    \/ GeneratePrerollPdf
    \/ GeneratePrerollPdfCondensed
    \/ GenerateCartDabPdf
    \/ GenerateCartDabPdfCondensed
    \/ GeneratePrepackPdf
    \/ GeneratePrepackPdfCondensed

Spec == Init /\ [][Next]_vars

(***************************************************************************)
(* The feed normalizer alone, on feeds with missing and null levels        *)
(***************************************************************************)
ShortPool ==
    {[name |-> "Acme - Lemon", brand |-> "Acme", prices |-> Price("1", 3000)],
     [name |-> "Zed - Haze", brand |-> "Zed", prices |-> Price("0.5", 2000)]}

GroupShapes ==
    {EmptyDict, [menu_items |-> Null]}
    \cup {[menu_items |-> Some(items)] : items \in SeqsUpTo(ShortPool, MaxItems)}

FeedShapes ==
    {Null, Some(EmptyDict), Some([status |-> "ok"]),
     Some([menu_feed |-> Null]), Some([menu_feed |-> Some(EmptyDict)]),
     Some([menu_feed |-> Some([menu_groups |-> Null])])}
    \cup {Some([menu_feed |-> Some([menu_groups |-> Some(groups)])]) :
            groups \in SeqsUpTo(GroupShapes, MaxGroups)}

InitFeed ==
    /\ pc = "fetched"
    /\ store \in Stores
    /\ menu_choice = "cart"
    /\ menu_feed \in FeedShapes
    /\ processed_data = Pending
    /\ pdf = Pending

NextFeed == ExtractAllItems

SpecFeed == InitFeed /\ [][NextFeed]_vars

(***************************************************************************)
(* Reading a generated document                                            *)
(***************************************************************************)
Extractor == MENU_GENERATOR_MAP[menu_choice].data_extractor
Generator == MENU_GENERATOR_MAP[menu_choice].pdf_generator

Generated == pc = "generated"

Count(seq, x) == Cardinality({j \in DOMAIN seq : seq[j] = x})

RECURSIVE FlatBlocks(_)
\* the blocks of a document, those inside KeepTogether included, in order
FlatBlocks(elements) ==
    IF elements = <<>> THEN <<>>
    ELSE LET e == Head(elements)
         IN  (IF e.kind = "KeepTogether" THEN FlatBlocks(e.flow) ELSE <<e>>)
             \o FlatBlocks(Tail(elements))

IsTable(e) == e.kind = "Table"

\* every table of the generated document, in order
DocTables == FilterSeq(FlatBlocks(pdf.value.elements), IsTable)

RowItems(table) == [j \in 1..Len(table.rows) |-> table.rows[j].item]

\* the items the extractor handed to the generator, in feed order
InputItems ==
    IF Extractor = "group_preroll_items"
    THEN Flatten([j \in 1..Len(PrerollOrder) |-> processed_data.value[PrerollOrder[j]]])
    ELSE processed_data.value

(***************************************************************************)
(* C1                                                                      *)
(***************************************************************************)
\* C1 (as claimed): for every feed, once group_preroll_items has run, every item
\* of extract_all_items is in exactly one bucket, and each item's category is a
\* bucket.  Violated: an item whose unit holds "1.2.3" makes float() raise (C5).
C1_EveryItemInOneBucket ==
    (Extractor = "group_preroll_items" /\ pc # "fetched") =>
        /\ ~processed_data.raised
        /\ DOMAIN processed_data.value = PrerollBuckets
        /\ \A it \in Range(FeedItems(menu_feed)) :
              /\ Count(InputItems, it) = Count(FeedItems(menu_feed), it)
              /\ \E c \in PrerollBuckets :
                    /\ it \in Range(processed_data.value[c])
                    /\ \A d \in PrerollBuckets \ {c} :
                          it \notin Range(processed_data.value[d])

(***************************************************************************)
(* C2                                                                      *)
(***************************************************************************)
\* the items of the groups that hold a list, [] when an upper level is missing or null
ItemsOfWellFormedGroups(feed) ==
    IF feed.null THEN <<>>
    ELSE LET mf == Get(feed.v, "menu_feed", Null)
         IN  IF mf.null THEN <<>>
             ELSE LET mg == Get(mf.v, "menu_groups", Null)
                  IN  IF mg.null THEN <<>>
                      ELSE Flatten([j \in 1..Len(mg.v) |->
                              LET mi == Get(mg.v[j], "menu_items", Null)
                              IN  IF mi.null THEN <<>> ELSE mi.v])

\* C2 (as claimed): extract_all_items never raises; a feed with a missing or null
\* level yields the items of its well-formed groups, a well-formed feed its items
\* in feed order.  Violated: a null level raises.
C2_ExtractNeverRaises ==
    (Extractor = "extract_all_items" /\ pc # "fetched") =>
        /\ ~processed_data.raised
        /\ processed_data.value = ItemsOfWellFormedGroups(menu_feed)

(***************************************************************************)
(* C3                                                                      *)
(***************************************************************************)
\* the tag names the store (case-insensitively)
NamesStore(tag, s) == Contains(Lower(tag), s)

\* every tag of the item names another store and not the one rendered
TagsNameOtherStoreOnly(item) ==
    LET tags == Get(item, "tag_list", <<>>)
    IN  /\ tags # <<>>
        /\ \A j \in 1..Len(tags) :
              /\ ~NamesStore(tags[j], store)
              /\ \E other \in Stores \ {store} : NamesStore(tags[j], other)

\* C3 (as claimed): on the menu rendered for a store, an item whose discount tags
\* all name a different store is not highlighted.  Violated: generate_flower_pdf
\* highlights "Foster" tags whatever the store.
C3_HighlightStoreScoped ==
    (Generated /\ Generator = "generate_flower_pdf") =>
        \A t \in Range(DocTables) : \A r \in Range(t.rows) :
            TagsNameOtherStoreOnly(r.item) => r.background = ""

(***************************************************************************)
(* C4                                                                      *)
(***************************************************************************)
\* no item qualifies for any category, section or tier of the document
NothingQualifies ==
    CASE Extractor = "group_preroll_items" ->
            \A c \in DOMAIN processed_data.value : processed_data.value[c] = <<>>
      [] Extractor = "extract_flower_data" ->
            \A j \in 1..Len(Tiers) :
                filter_by_tier(processed_data.value, Tiers[j]) = Ok(<<>>)
      [] OTHER -> processed_data.value = <<>>

\* C4 (as claimed): in every document variant, when nothing qualifies the build is
\* skipped and zero-length bytes are returned.  Violated: the preroll and cart/dab
\* generators always build.
C4_EmptyInputEmptyDocument ==
    (Generated /\ NothingQualifies) =>
        ~pdf.value.built /\ pdf.value.pdf_data = ""

(***************************************************************************)
(* C5                                                                      *)
(***************************************************************************)
\* C5 (as claimed): on a well-formed feed no record aborts the processing, whatever
\* its prices list, its first unit or its price_cents.  Violated: float("1.2.3")
\* raises in determine_preroll_category, prices == [] raises in the prepack sort.
C5_MalformedFieldNeverAborts ==
    WellFormed(menu_feed) => pc # "raised"

(***************************************************************************)
(* Sections and groups of a generated document                             *)
(***************************************************************************)
\* a category block of the full preroll document: a KeepTogether that opens
\* with the category header
IsCatBlock(e) ==
    /\ e.kind = "KeepTogether"
    /\ e.flow # <<>>
    /\ e.flow[1].kind = "Paragraph"
    /\ e.flow[1].style = "CatHeader"

TopLevel(elements) ==
    Flatten([j \in 1..Len(elements) |->
                IF IsCatBlock(elements[j]) THEN elements[j].flow ELSE <<elements[j]>>])

\* the sections of the document: a title and, in order, the row items of the
\* groups rendered under it
DocSections ==
    LET els == TopLevel(pdf.value.elements)
        acc[n \in 0..Len(els)] ==
            IF n = 0 THEN <<>>
            ELSE LET e == els[n]
                     before == acc[n - 1]
                 IN  IF e.kind = "Paragraph"
                     THEN Append(before, [title |-> e.text, groups |-> <<>>])
                     ELSE IF e.kind = "KeepTogether" /\ before # <<>>
                     THEN [before EXCEPT ![Len(before)].groups =
                              Append(@, RowItems(FilterSeq(e.flow, IsTable)[1]))]
                     ELSE before
    IN  acc[Len(els)]

SectionItems(sec) == Flatten(sec.groups)

\* the row items rendered under the sections titled title
ItemsUnder(title) ==
    LET secs == DocSections
    IN  Flatten([j \in 1..Len(secs) |->
                    IF secs[j].title = title THEN SectionItems(secs[j]) ELSE <<>>])

AllSectionItems ==
    LET secs == DocSections
    IN  Flatten([j \in 1..Len(secs) |-> SectionItems(secs[j])])

(***************************************************************************)
(* C6                                                                      *)
(***************************************************************************)
CartTitles == <<"CARTS", "FLAVORED CARTS", "DISPOSABLES", "FLAVORED DISPOSABLES">>

\* the section the stated precedence gives an item
ExpectedSection(item) ==
    IF is_disposable_item(item) /\ is_flavored_item(item) THEN "FLAVORED DISPOSABLES"
    ELSE IF is_disposable_item(item) THEN "DISPOSABLES"
    ELSE IF is_flavored_item(item) THEN "FLAVORED CARTS"
    ELSE "CARTS"

CondensedCartDone ==
    /\ Generated
    /\ Generator = "generate_cart_dab_pdf_condensed"
    /\ menu_choice = "cart_condensed"

\* C6: in the condensed cart document every item is rendered under exactly one of
\* the four sections, the one the precedence flavored disposable > disposable >
\* flavored cart > cart gives it; an item named "... Disposable" of a flavored
\* product type is under FLAVORED DISPOSABLES only.
C6_FourSectionsByPrecedence ==
    CondensedCartDone =>
        /\ \A j \in 1..Len(DocSections) : DocSections[j].title \in Range(CartTitles)
        /\ Len(AllSectionItems) = Len(processed_data.value)
        /\ \A it \in Range(processed_data.value) :
              /\ Count(ItemsUnder(ExpectedSection(it)), it) = Count(processed_data.value, it)
              /\ \A title \in Range(CartTitles) \ {ExpectedSection(it)} :
                    it \notin Range(ItemsUnder(title))
              /\ (Contains(GetStr(it, "name"), "Disposable")
                    /\ Contains(GetStr(it, "product_type"), "flavored"))
                 => /\ it \in Range(ItemsUnder("FLAVORED DISPOSABLES"))
                    /\ it \notin Range(ItemsUnder("DISPOSABLES"))
                    /\ it \notin Range(ItemsUnder("FLAVORED CARTS"))

\* a condensed cart document with a flavored disposable and a second section
C6_Witness ==
    /\ CondensedCartDone
    /\ Len(DocSections) >= 2
    /\ \E it \in Range(processed_data.value) :
          /\ Contains(GetStr(it, "name"), "Disposable")
          /\ Contains(GetStr(it, "product_type"), "flavored")

(***************************************************************************)
(* C7                                                                      *)
(***************************************************************************)
PrepackDoc == Generator \in {"generate_prepack_pdf", "generate_prepack_pdf_condensed"}
FlowerDoc == Generator = "generate_flower_pdf"

\* the order of the sort that produced the tables of this document
DocLess(a, b) ==
    IF PrepackDoc THEN PrepackLess(a, b)
    ELSE IF FlowerDoc THEN FlowerLess(a, b)
    ELSE ItemLess(a, b)

\* that sort, applied again
DocSort(items) ==
    IF PrepackDoc THEN sort_items_by_price_and_lineage(items).value
    ELSE IF FlowerDoc THEN sort_flower_items(items)
    ELSE SortGroupItems(items)

\* C7: every sort is idempotent and stable: the rows of every table are in
\* non-decreasing key order, sorting them again gives the same sequence, and rows
\* with equal keys are in the order the feed holds them.
C7_SortIdempotentStable ==
    Generated =>
        \A t \in Range(DocTables) :
            LET out == RowItems(t)
                InTable(it) == it \in Range(out)
                inp == FilterSeq(FeedItems(menu_feed), InTable)
            IN  /\ DocSort(out) = out
                /\ \A j \in 1..(Len(out) - 1) : ~DocLess(out[j + 1], out[j])
                /\ \A x \in Range(out) :
                      LET Ties(y) == ~DocLess(x, y) /\ ~DocLess(y, x)
                      IN  FilterSeq(out, Ties) = FilterSeq(inp, Ties)

\* a table with two different records of equal key
C7_Witness ==
    /\ Generated
    /\ \E t \in Range(DocTables) : \E j \in 1..(Len(t.rows) - 1) :
          LET a == t.rows[j].item
              b == t.rows[j + 1].item
          IN  a # b /\ ~DocLess(a, b) /\ ~DocLess(b, a)

(***************************************************************************)
(* C8                                                                      *)
(***************************************************************************)
\* C8 (as claimed): no name cell is wider than its column, measured in the font
\* the cell is drawn in.  Violated: the prepack strain cell is measured in
\* Helvetica and drawn in Helvetica-Bold.
C8_NoCellOverflow ==
    Generated =>
        \A t \in Range(DocTables) : \A r \in Range(t.rows) :
            stringWidth(r.name, t.name_font, t.font_size) <= t.col_w

(***************************************************************************)
(* C9                                                                      *)
(***************************************************************************)
PrerollDoc == Generator \in {"generate_preroll_pdf", "generate_preroll_pdf_condensed"}

PriceOf(item) == get_price_info(item)[2]

LowestPrice(items) ==
    CHOOSE m \in {PriceOf(items[j]) : j \in 1..Len(items)} :
        \A j \in 1..Len(items) : m <= PriceOf(items[j])

\* C9: in both preroll documents the items of a category are grouped by
\* (brand, unit); groups are in non-decreasing order of (lowest price in the
\* group, lower-cased brand, lower-cased unit) and the rows of a group in
\* non-decreasing order of (price, lineage weight, lower-cased strain): of two
\* rows equal in price and lineage, "Apex" is above "Zinc".
C9_PrerollGroupingAndOrder ==
    (Generated /\ PrerollDoc) =>
        \A k \in 1..Len(DocSections) :
            LET sec == DocSections[k]
                groups == sec.groups
                GKey(g) == <<LowestPrice(g), Lower(BrandUnitKey(g[1])[1]),
                             Lower(BrandUnitKey(g[1])[2])>>
            IN  /\ sec.title \in DOMAIN processed_data.value
                /\ \A it \in Range(processed_data.value[sec.title]) :
                      Count(SectionItems(sec), it)
                          = Count(processed_data.value[sec.title], it)
                /\ Len(SectionItems(sec)) = Len(processed_data.value[sec.title])
                /\ \A g \in 1..Len(groups) :
                      /\ groups[g] # <<>>
                      /\ \A j \in 1..Len(groups[g]) :
                            BrandUnitKey(groups[g][j]) = BrandUnitKey(groups[g][1])
                      /\ \A h \in 1..Len(groups) :
                            h # g => BrandUnitKey(groups[h][1]) # BrandUnitKey(groups[g][1])
                      /\ \A j \in 1..(Len(groups[g]) - 1) :
                            ~LessNNS(ItemSortKey(groups[g][j + 1]), ItemSortKey(groups[g][j]))
                      /\ \A i, j \in 1..Len(groups[g]) :
                            (/\ GetStr(groups[g][i], "strain") = "Apex"
                             /\ GetStr(groups[g][j], "strain") = "Zinc"
                             /\ PriceOf(groups[g][i]) = PriceOf(groups[g][j])
                             /\ ItemSortKey(groups[g][i])[2] = ItemSortKey(groups[g][j])[2])
                            => i < j
                /\ \A g \in 1..(Len(groups) - 1) :
                      ~LessNSS(GKey(groups[g + 1]), GKey(groups[g]))

\* a category with two groups of different price fed dearest first, or a group
\* with "Zinc" fed before "Apex"
C9_Witness ==
    /\ Generated /\ PrerollDoc
    /\ \E k \in 1..Len(DocSections) :
          LET sec == DocSections[k]
              fed == processed_data.value[sec.title]
          IN  \/ /\ Len(sec.groups) = 2
                 /\ Len(fed) = 2
                 /\ PriceOf(fed[1]) > PriceOf(fed[2])
              \/ /\ Len(sec.groups) = 1
                 /\ Len(fed) = 2
                 /\ GetStr(fed[1], "strain") = "Zinc"
                 /\ GetStr(fed[2], "strain") = "Apex"

(***************************************************************************)
(* C10                                                                     *)
(***************************************************************************)
CartDabDoc == Generator \in {"generate_cart_dab_pdf", "generate_cart_dab_pdf_condensed"}

\* C10: sort_cart_dab_groups puts every item in exactly one (brand, unit, price)
\* group and returns the groups in non-decreasing order of (price, lower-cased
\* brand, lower-cased unit).
C10_CartGroupsPartitionAndOrder ==
    (Generated /\ CartDabDoc) =>
        /\ Len(AllSectionItems) = Len(processed_data.value)
        /\ \A it \in Range(processed_data.value) :
              Count(AllSectionItems, it) = Count(processed_data.value, it)
        /\ \A k \in 1..Len(DocSections) :
              LET groups == DocSections[k].groups
                  GKey(g) == <<PriceOf(g[1]), Lower(Strip(GetStr(g[1], "brand"))),
                               Lower(get_price_info(g[1])[1])>>
              IN  /\ \A g \in 1..Len(groups) :
                        /\ groups[g] # <<>>
                        /\ \A j \in 1..Len(groups[g]) :
                              BrandUnitPriceKey(groups[g][j]) = BrandUnitPriceKey(groups[g][1])
                        /\ \A h \in 1..Len(groups) :
                              h # g => BrandUnitPriceKey(groups[h][1])
                                          # BrandUnitPriceKey(groups[g][1])
                  /\ \A g \in 1..(Len(groups) - 1) :
                        ~LessNSS(GKey(groups[g + 1]), GKey(groups[g]))

\* two groups under one title, fed dearest first
C10_Witness ==
    /\ Generated /\ CartDabDoc
    /\ Len(processed_data.value) = 2
    /\ PriceOf(processed_data.value[1]) > PriceOf(processed_data.value[2])
    /\ \E k \in 1..Len(DocSections) : Len(DocSections[k].groups) = 2

(***************************************************************************)
(* C11                                                                     *)
(***************************************************************************)
\* the price in minor units, a large sentinel when the item has none
PriceOrSentinel(item) ==
    IF HasPrice(item) /\ "price_cents" \in DOMAIN FirstPrice(item)
    THEN FirstPrice(item).price_cents
    ELSE 999999

LineageWeight(item) == get_lineage_order(get_lineage_abbr(item))

\* (price or sentinel, lineage weight, lower-cased strain) of a prepack row
ClaimedPrepackKey(item) ==
    <<PriceOrSentinel(item), LineageWeight(item), Lower(Strip(GetStr(item, "strain")))>>

\* the claimed order of flower rows: price, lineage weight, lower-cased name, then brand
ClaimedFlowerLess(a, b) ==
    LET ka == <<PriceOrSentinel(a), LineageWeight(a), Lower(Strip(GetStr(a, "name")))>>
        kb == <<PriceOrSentinel(b), LineageWeight(b), Lower(Strip(GetStr(b, "name")))>>
    IN  \/ LessNNS(ka, kb)
        \/ ka = kb /\ StrLess(Lower(GetStr(a, "brand")), Lower(GetStr(b, "brand")))

\* C11 (as claimed): the rows of every prepack table and of every flower table are
\* in non-decreasing order of (price in minor units or sentinel, lineage weight,
\* lower-cased strain or name), unknown lineage (99) last, flower ties broken by
\* brand.  Violated: sort_flower_items sorts by (lineage weight, name) only.
C11_PrepackAndFlowerSortKey ==
    (Generated /\ (PrepackDoc \/ FlowerDoc)) =>
        \A t \in Range(DocTables) :
            LET out == RowItems(t)
            IN  \A j \in 1..(Len(out) - 1) :
                    IF PrepackDoc
                    THEN ~LessNNS(ClaimedPrepackKey(out[j + 1]), ClaimedPrepackKey(out[j]))
                    ELSE ~ClaimedFlowerLess(out[j + 1], out[j])

(***************************************************************************)
(* C12                                                                     *)
(***************************************************************************)
\* the brand the classifier names as infused whatever the product type
OverrideBrands == {"portland heights"}

PrerollGrouped ==
    /\ Extractor = "group_preroll_items"
    /\ pc # "fetched"
    /\ ~processed_data.raised

\* C12 (as claimed): once the preroll items are grouped, every item of an override
\* brand is in "Infused Prerolls", whatever its product type, title and weight.
\* Violated: the brand is looked at last, after the blunt test.
C12_BrandOverrideFirst ==
    PrerollGrouped =>
        \A it \in Range(FeedItems(menu_feed)) :
            Lower(GetStr(it, "brand")) \in OverrideBrands
                => it \in Range(processed_data.value["Infused Prerolls"])

(***************************************************************************)
(* C13                                                                     *)
(***************************************************************************)
\* C13 (as claimed): the result of the preroll grouping has a bucket "Infused
\* Preroll Packs", which holds the pack items of the designated brands, and the
\* preroll documents render that bucket under its own category header.
\* Violated: group_preroll_items makes six buckets and the generators render six.
C13_InfusedPrerollPacksBucket ==
    PrerollGrouped =>
        /\ "Infused Preroll Packs" \in DOMAIN processed_data.value
        /\ (Generated /\ PrerollDoc) =>
              \A it \in Range(processed_data.value["Infused Preroll Packs"]) :
                  /\ it \in Range(ItemsUnder("Infused Preroll Packs"))
                  /\ it \notin Range(ItemsUnder("Preroll Packs"))

(***************************************************************************)
(* The groups of a generated document, with their headings                 *)
(***************************************************************************)
\* for every group block, in order: the title it is under, its subheader text,
\* the header row of its table and the items of its rows
DocGroups ==
    LET els == TopLevel(pdf.value.elements)
        title[n \in 0..Len(els)] ==
            IF n = 0 THEN ""
            ELSE IF els[n].kind = "Paragraph" THEN els[n].text ELSE title[n - 1]
        Block(n) ==
            LET tbl == FilterSeq(els[n].flow, IsTable)[1]
            IN  [section |-> title[n], heading |-> els[n].flow[1].text,
                 hdr |-> tbl.hdr, items |-> RowItems(tbl)]
        IsGroup(n) == els[n].kind = "KeepTogether"
    IN  [j \in 1..Len(FilterSeq([n \in 1..Len(els) |-> n], IsGroup)) |->
            Block(FilterSeq([n \in 1..Len(els) |-> n], IsGroup)[j])]

EndsWith(s, suffix) ==
    /\ Len(suffix) <= Len(s)
    /\ SubSeq(s, Len(s) - Len(suffix) + 1, Len(s)) = suffix

(***************************************************************************)
(* C14                                                                     *)
(***************************************************************************)
\* not of the special brand family, product type infused, weight at most 2.9,
\* no "blunt" in the title, a pack marker in the name
InfusedPackMarked(item) ==
    /\ ~Contains(Lower(GetStr(item, "brand")), "hellavated")
    /\ Lower(GetStr(item, "product_type")) = "infused"
    /\ ~PrerollWeight(item).raised
    /\ ~FracGt(PrerollWeight(item).value, 29, 10)
    /\ ~Contains(PrerollTitle(item), "blunt")
    /\ extract_pack_size(GetStr(item, "name")) # ""

PackSuffix(item) ==
    Money(PriceOf(item)) \o " " \o extract_pack_size(GetStr(item, "name")) \o " pack"

\* C14 (as claimed): such an item is in "Infused Prerolls", and the heading of the
\* group that shows it ends with its price and "<N> pack".  Violated: the heading
\* takes the pack size from the first row of the group only.
C14_PackHeadingOfItsGroup ==
    PrerollGrouped =>
        \A it \in Range(FeedItems(menu_feed)) :
            InfusedPackMarked(it) =>
                /\ it \in Range(processed_data.value["Infused Prerolls"])
                /\ (Generated /\ PrerollDoc) =>
                      \A g \in Range(DocGroups) :
                          it \in Range(g.items) => EndsWith(g.heading, PackSuffix(it))

\* C14, the part the code keeps: such an item is in "Infused Prerolls"; when it is
\* the first row of its group, the group's heading is "<brand> <unit> $<price, two decimals>
\* <N> pack": "Brand 1g $15.00 2 pack" for "Brand - Blueberry 2pk" at 1500.
C14_PackHeadingOfFirstRow ==
    PrerollGrouped =>
        \A it \in Range(FeedItems(menu_feed)) :
            InfusedPackMarked(it) =>
                /\ it \in Range(processed_data.value["Infused Prerolls"])
                /\ (Generated /\ PrerollDoc) =>
                      \A g \in Range(DocGroups) :
                          g.items[1] = it =>
                              /\ g.section = "Infused Prerolls"
                              /\ EndsWith(g.heading, PackSuffix(it))
                              /\ (GetStr(it, "name") = "Brand - Blueberry 2pk"
                                    /\ PriceOf(it) = 1500)
                                 => g.heading = "Brand 1g $15.00 2 pack"

\* a preroll document in which the marked item heads a group of two rows
C14_Witness ==
    /\ Generated /\ PrerollDoc
    /\ \E g \in Range(DocGroups) :
          /\ InfusedPackMarked(g.items[1])
          /\ Len(g.items) = 2
          /\ g.heading = "Brand 1g $15.00 2 pack"

(***************************************************************************)
(* C15                                                                     *)
(***************************************************************************)
\* the items of the rows under the header "<TIER> SHELF"
ItemsOnShelf(tier) ==
    LET els == pdf.value.elements
        shelf[n \in 0..Len(els)] ==
            IF n = 0 THEN ""
            ELSE IF els[n].kind = "Paragraph" /\ els[n].style = "Header"
                 THEN els[n].text ELSE shelf[n - 1]
    IN  Flatten([n \in 1..Len(els) |->
                    IF els[n].kind = "Table" /\ shelf[n] = Upper(tier) \o " SHELF"
                    THEN RowItems(els[n]) ELSE <<>>])

\* the tier_name of the item, trimmed and lower-cased, is that of the tier
TierNamed(item, tier) ==
    /\ ~IsNone(item, "tier_name")
    /\ Lower(Strip(GetStr(item, "tier_name"))) = Lower(tier)

FlowerExtracted == Extractor = "extract_flower_data" /\ pc \in {"generated", "raised"}

\* C15 (as claimed): the flower document is generated whatever the tier_name
\* values; an item is under a tier exactly when its trimmed, lower-cased tier_name
\* names it, and under no two tiers.  Violated: a null tier_name raises.
C15_TierByTierNameOnly ==
    FlowerExtracted =>
        /\ pc = "generated"
        /\ \A it \in Range(processed_data.value) : \A j \in 1..Len(Tiers) :
              /\ (it \in Range(ItemsOnShelf(Tiers[j]))) <=> TierNamed(it, Tiers[j])
              /\ \A k \in 1..Len(Tiers) :
                    (k # j /\ it \in Range(ItemsOnShelf(Tiers[j])))
                        => it \notin Range(ItemsOnShelf(Tiers[k]))

\* the same without the demand that nothing raises
C15_TiersWhenGenerated ==
    (FlowerDoc /\ Generated) =>
        \A it \in Range(processed_data.value) : \A j \in 1..Len(Tiers) :
            (it \in Range(ItemsOnShelf(Tiers[j]))) <=> TierNamed(it, Tiers[j])

(***************************************************************************)
(* get_price_info alone, on items of every shape of the prices list        *)
(***************************************************************************)
PriceUnits == {"", " ", "1", " 1 ", "1g", "0.5", "1G ", "2pk", "."}
PriceCents == {0, 1, 1500, 2999}

\* a price entry with or without a unit and a price_cents
PriceEntries ==
    {EmptyDict}
    \cup {[unit |-> u] : u \in PriceUnits}
    \cup {[price_cents |-> c] : c \in PriceCents}
    \cup {[unit |-> u, price_cents |-> c] : u \in PriceUnits, c \in PriceCents}

PricePool ==
    {[name |-> "Acme - Bare"], [name |-> "Acme - Void", prices |-> <<>>]}
    \cup {[name |-> "Acme - One", prices |-> <<e>>] : e \in PriceEntries}
    \cup {[name |-> "Acme - Two", prices |-> <<e, [unit |-> "7g", price_cents |-> 100]>>] :
            e \in PriceEntries}

InitPrice ==
    /\ pc = "fetched"
    /\ store = "foster"
    /\ menu_choice = "cart"
    /\ menu_feed \in {FeedOf(<<it>>) : it \in PricePool}
    /\ processed_data = Pending
    /\ pdf = Pending

\* get_price_info of the item of the feed
GetPriceInfo ==
    /\ pc = "fetched"
    /\ processed_data' = Ok(get_price_info(FeedItems(menu_feed)[1]))
    /\ pc' = "priced"
    /\ UNCHANGED <<store, menu_choice, menu_feed, pdf>>

NextPrice == GetPriceInfo

SpecPrice == InitPrice /\ [][NextPrice]_vars

(***************************************************************************)
(* C16                                                                     *)
(***************************************************************************)
PricedItem == FeedItems(menu_feed)[1]

\* the unit string the first price entry stores, "" when it has none
StoredUnit == Get(PricedItem.prices[1], "unit", "")

HasEntry == "prices" \in DOMAIN PricedItem /\ PricedItem.prices # <<>>

NoLetter(u) == \A i \in 1..Len(u) : ~IsAlpha(CharAt(u, i))

\* the price clause: price_cents of the first entry, 0 when absent or no entry
PriceAsClaimed ==
    processed_data.value[2] =
        IF HasEntry /\ "price_cents" \in DOMAIN PricedItem.prices[1]
        THEN PricedItem.prices[1].price_cents ELSE 0

\* C16 (as claimed): the unit returned is the stored unit, with "g" appended
\* whenever it holds no letter and unchanged when it holds one; the price is
\* price_cents / 100 of the first entry, 0 when absent.  Violated: the unit is
\* trimmed, and an empty unit gets no suffix.
C16_PriceInfoAsClaimed ==
    pc = "priced" =>
        /\ PriceAsClaimed
        /\ HasEntry =>
              processed_data.value[1] =
                  IF NoLetter(StoredUnit) THEN StoredUnit \o "g" ELSE StoredUnit

\* C16 (amended): the unit returned is the stored unit trimmed, with "g" appended
\* whenever the trimmed unit is not empty and holds no letter, and only trimmed
\* otherwise; without a price entry it is empty; the price is as claimed.
C16_PriceInfoTrimmedUnit ==
    pc = "priced" =>
        /\ PriceAsClaimed
        /\ ~HasEntry => processed_data.value[1] = ""
        /\ HasEntry =>
              LET u == Strip(StoredUnit)
                  r == processed_data.value[1]
              IN  /\ (u # "" /\ NoLetter(u)) => r = u \o "g"
                  /\ (u = "" \/ ~NoLetter(u)) => r = u

\* an item of two entries whose first unit is a padded number
C16_Witness ==
    /\ pc = "priced"
    /\ HasEntry /\ Len(PricedItem.prices) = 2
    /\ StoredUnit = " 1 "
    /\ processed_data.value = <<"1g", 1500>>

(***************************************************************************)
(* C17                                                                     *)
(***************************************************************************)
\* the product type or the name contains "flavored" or "combined"
FlavoredByText(item) ==
    \E term \in {"flavored", "combined"} :
        \/ Contains(Lower(GetStr(item, "product_type")), term)
        \/ Contains(Lower(GetStr(item, "name")), term)

BrandOf(item) == Lower(Strip(GetStr(item, "brand")))

ShownAsFlavored(item) ==
    \/ item \in Range(ItemsUnder("FLAVORED CARTS"))
    \/ item \in Range(ItemsUnder("FLAVORED DISPOSABLES"))

\* C17 (as claimed): there is one excluded brand (in the feed or not) such that the
\* condensed cart document shows an item as flavored exactly when its product
\* type or name contains "flavored" or "combined" and its brand is not that brand.
\* Violated: is_flavored_item excludes no brand and does not look for "combined"
\* in the name.
C17_FlavoredWithBrandExclusion ==
    CondensedCartDone =>
        \E excluded \in {BrandOf(it) : it \in Range(processed_data.value)}
                          \cup {"a brand not in the feed"} :
            \A it \in Range(processed_data.value) :
                ShownAsFlavored(it) <=> (FlavoredByText(it) /\ BrandOf(it) # excluded)

(***************************************************************************)
(* C18                                                                     *)
(***************************************************************************)
GroupedDoc == PrerollDoc \/ CartDabDoc

\* a group block: its subheader first, then its one table, a spacer last, and
\* nothing but spacers in between
GroupShape(flow) ==
    /\ Len(flow) >= 3
    /\ flow[1].kind = "Paragraph"
    /\ flow[Len(flow)].kind = "Spacer"
    /\ \E k \in 2..(Len(flow) - 1) :
          /\ flow[k].kind = "Table"
          /\ \A j \in 2..Len(flow) : j # k => flow[j].kind = "Spacer"

\* the category or section the classification gives an item of this document
HeaderOf(item) ==
    IF PrerollDoc THEN determine_preroll_category(item).value
    ELSE IF menu_choice = "cart_condensed" THEN ExpectedSection(item)
    ELSE MenuTitle(menu_choice)

\* C18: in a generated document no table comes without a header or subheader of
\* its own before it; in the grouped documents every group is one contiguous block
\* of subheader, table and spacer in this order, stands after a category or
\* section header, the header of the category of its items, and every header
\* occurs once, so the blocks of a category lie between its header and the next.
C18_LayoutOrder ==
    Generated =>
        LET blocks == FlatBlocks(pdf.value.elements)
            els == TopLevel(pdf.value.elements)
        IN  /\ \A n \in 1..Len(blocks) :
                  blocks[n].kind = "Table" =>
                      \E m \in 1..(n - 1) :
                          /\ blocks[m].kind = "Paragraph"
                          /\ \A k \in (m + 1)..(n - 1) : blocks[k].kind # "Table"
            /\ GroupedDoc =>
                  /\ \A n \in 1..Len(els) :
                        /\ els[n].kind # "Table"
                        /\ els[n].kind = "KeepTogether" =>
                              /\ GroupShape(els[n].flow)
                              /\ \E m \in 1..(n - 1) : els[m].kind = "Paragraph"
                  /\ \A g \in Range(DocGroups) : \A it \in Range(g.items) :
                        HeaderOf(it) = g.section
                  /\ \A m, n \in 1..Len(els) :
                        (m # n /\ els[m].kind = "Paragraph" /\ els[n].kind = "Paragraph")
                            => els[m].text # els[n].text

\* a grouped document of two headers, each with a group under it
C18_Witness ==
    /\ Generated /\ GroupedDoc
    /\ Len(DocSections) = 2
    /\ DocSections[1].groups # <<>>
    /\ DocSections[2].groups # <<>>

(***************************************************************************)
(* C19                                                                     *)
(***************************************************************************)
MgHeaders == <<"Product Name", "THC MG", "CBD MG">>
PercentHeaders == <<"Product Name", "THC %", "CBD %">>

\* an infused category, or Flavored
InfusedOrFlavored(cat) ==
    cat \in {"Infused Prerolls", "Infused Blunts", "Infused Preroll Packs", "Flavored"}

\* C19: the header row of a group's table is the MG one exactly when, in a cart or
\* dab document, some item of the group satisfies is_thc_mg_item and, in a preroll
\* document, the group's category is infused or Flavored; otherwise it is the %
\* one.  The choice is made group by group.
C19_PotencyHeadersPerGroup ==
    (Generated /\ GroupedDoc) =>
        \A g \in Range(DocGroups) :
            LET mg == IF CartDabDoc
                      THEN \E it \in Range(g.items) : is_thc_mg_item(it)
                      ELSE InfusedOrFlavored(g.section)
            IN  g.hdr = IF mg THEN MgHeaders ELSE PercentHeaders

\* two groups under one header with different header rows
C19_Witness ==
    /\ Generated /\ CartDabDoc
    /\ \E g, h \in Range(DocGroups) : g.section = h.section /\ g.hdr # h.hdr

(***************************************************************************)
(* C20                                                                     *)
(***************************************************************************)
\* the item carries a tag of the promotion: "Last Chance" is the 30% one,
\* "Manager Special" the 50% one (the legend of the document says so)
CarriesTag(item, promotion) ==
    LET tags == Get(item, "tag_list", <<>>)
    IN  \E j \in 1..Len(tags) :
            Contains(tags[j], promotion) /\ Contains(tags[j], "Foster")

\* C20: a flower row has one highlight at most: the 30% colour when the item
\* carries a 30% tag, also when it carries a 50% tag as well; the 50% colour when
\* it carries a 50% tag and no 30% tag; none when it carries neither.
C20_ThirtyBeforeFifty ==
    (Generated /\ FlowerDoc) =>
        \A t \in Range(DocTables) : \A r \in Range(t.rows) :
            LET thirty == CarriesTag(r.item, "Last Chance")
                fifty == CarriesTag(r.item, "Manager Special")
            IN  /\ r.background \in {"yellow", "lightblue", ""}
                /\ thirty => r.background = "yellow"
                /\ (fifty /\ ~thirty) => r.background = "lightblue"
                /\ (~fifty /\ ~thirty) => r.background = ""

\* a row whose item carries both tags, the 50% one first in its tag list
C20_Witness ==
    /\ Generated /\ FlowerDoc
    /\ \E t \in Range(DocTables) : \E r \in Range(t.rows) :
          /\ CarriesTag(r.item, "Last Chance")
          /\ CarriesTag(r.item, "Manager Special")
          /\ r.background = "yellow"

(***************************************************************************)
(* C21                                                                     *)
(***************************************************************************)
\* the top-level elements from position n + 1 up to the next page break
UntilNextBreak(elements, n) ==
    LET stops == {k \in (n + 1)..Len(elements) : elements[k] = PageBreak}
        last == IF stops = {} THEN Len(elements)
                ELSE (CHOOSE k \in stops : \A j \in stops : k <= j) - 1
    IN  SubSeq(elements, n + 1, last)

\* page breaks only separate rendered sections: not the first element, not the
\* last, and each one followed at once by a header under which a table is shown
\* before the next page break
PageBreaksSeparateSections(elements) ==
    elements # <<>> =>
        /\ elements[1] # PageBreak
        /\ elements[Len(elements)] # PageBreak
        /\ \A n \in 1..(Len(elements) - 1) :
              elements[n] = PageBreak =>
                  /\ elements[n + 1].kind = "Paragraph"
                  /\ \E b \in Range(FlatBlocks(UntilNextBreak(elements, n))) :
                        b.kind = "Table"

\* C21: in every generated document, of every variant and for every input, the
\* element sequence does not begin with a page break, does not end with one, and
\* every page break is immediately followed by the header of a non-empty section.
C21_PageBreaksSeparateSections ==
    Generated => PageBreaksSeparateSections(pdf.value.elements)

\* the same property for the documents other than the flower menu, whose page
\* breaks are appended before a section that is about to be rendered
C21_PageBreaksOutsideFlower ==
    (Generated /\ menu_choice # "flower")
        => PageBreaksSeparateSections(pdf.value.elements)

\* a flower document whose last shelf is not Gold ends with a page break
C21_TrailingBreakOnlyWithoutGold ==
    (Generated /\ menu_choice = "flower" /\ pdf.value.elements # <<>>)
        => LET elements == pdf.value.elements
               gold == filter_by_tier(processed_data.value, "Gold").value
           IN  /\ elements[1] # PageBreak
               /\ (elements[Len(elements)] = PageBreak) <=> (gold = <<>>)

(***************************************************************************)
(* The /generate handler: the form's store and menu type are looked up,    *)
(* the feed is fetched, extracted and checked, the document is generated   *)
(* and sent.  One request is one step; pc is the return statement reached. *)
(***************************************************************************)
\* what fetch_menu_data can return: None for a store without configuration or
\* a failed request, otherwise the JSON body of the response
fetch_menu_data(store_name, menu_type) ==
    IF store_name \notin Stores THEN {Null}
    ELSE {Null, Some(EmptyDict)}
         \cup {FeedOf(items) : items \in SeqsUpTo(Pool(menu_type), MaxItems)}

\* not processed_data or not any(processed_data.values()
\*     if isinstance(processed_data, dict) else processed_data)
NoItemsFound(processed, is_dict) ==
    IF is_dict
    THEN DOMAIN processed = {} \/ \A c \in DOMAIN processed : processed[c] = <<>>
    ELSE processed = <<>> \/ \A j \in 1..Len(processed) : DOMAIN processed[j] = {}

\* generator_info['data_extractor'](raw_data)
CallExtractor(choice, raw_data) ==
    LET name == MENU_GENERATOR_MAP[choice].data_extractor
    IN  CASE name = "extract_flower_data" -> extract_flower_data(raw_data)
          [] name = "group_preroll_items" -> group_preroll_items(raw_data)
          [] OTHER -> extract_all_items(raw_data)

\* the form values of a request: a configured store or another one, a key of
\* MENU_GENERATOR_MAP or another menu type
InitApp ==
    /\ pc = "request"
    /\ store \in Stores \cup {"downtown"}
    /\ menu_choice \in MenuChoices \cup {"edible", ""}
    /\ menu_feed = Null
    /\ processed_data = Pending
    /\ pdf = Pending

\* a request whose menu type is not a key of MENU_GENERATOR_MAP: answered 400
\* before anything is fetched
InvalidMenuType ==
    /\ pc = "request"
    /\ menu_choice \notin DOMAIN MENU_GENERATOR_MAP
    /\ pc' = "return_400"
    /\ UNCHANGED <<store, menu_choice, menu_feed, processed_data, pdf>>

\* a request whose menu type maps to the generator `name`, from the form to the
\* response; pdf_bytes is generator_info['pdf_generator'](processed_data).  Each
\* step of the handler is taken only if the steps before it did not return: the
\* fetch and its check, the extraction and its check, the generation, send_file;
\* an exception of the extractor or of the generator is answered by the except
\* clause.
GeneratePdf(name, pdf_bytes) ==
    /\ pc = "request"
    /\ menu_choice \in DOMAIN MENU_GENERATOR_MAP
    /\ MENU_GENERATOR_MAP[menu_choice].pdf_generator = name
    /\ \E raw_data \in fetch_menu_data(store, ApiMenuType(menu_choice)) :
          menu_feed' = raw_data
    /\ processed_data' =
          IF menu_feed'.null \/ menu_feed'.v = EmptyDict THEN processed_data
          ELSE CallExtractor(menu_choice, menu_feed')
    /\ pdf' =
          IF processed_data' = Pending \/ processed_data'.raised THEN pdf
          ELSE IF NoItemsFound(processed_data'.value,
                               MENU_GENERATOR_MAP[menu_choice].data_extractor
                                   = "group_preroll_items")
          THEN pdf
          ELSE pdf_bytes
    /\ pc' = IF menu_feed'.null \/ menu_feed'.v = EmptyDict THEN "return_500"
             ELSE IF processed_data'.raised THEN "except_500"
             ELSE IF pdf' = Pending THEN "return_404"
             ELSE IF pdf'.raised THEN "except_500"
             ELSE "send_file"
    /\ UNCHANGED <<store, menu_choice>>

\* the generators are called with their default font sizes
NextApp ==
    \/ InvalidMenuType
    \/ GeneratePdf("generate_flower_pdf",
                   generate_flower_pdf(processed_data'.value, 12))
    \/ GeneratePdf("generate_preroll_pdf",
                   generate_preroll_pdf(processed_data'.value, 12))
    \/ GeneratePdf("generate_preroll_pdf_condensed",
                   generate_preroll_pdf_condensed(processed_data'.value))
    \/ GeneratePdf("generate_cart_dab_pdf",
                   generate_cart_dab_pdf(processed_data'.value,
                                         MenuTitle(menu_choice), 12))
    \/ GeneratePdf("generate_cart_dab_pdf_condensed",
                   generate_cart_dab_pdf_condensed(processed_data'.value,
                                                   MenuTitle(menu_choice)))
    \/ GeneratePdf("generate_prepack_pdf",
                   generate_prepack_pdf(processed_data'.value, 9))
    \/ GeneratePdf("generate_prepack_pdf_condensed",
                   generate_prepack_pdf_condensed(processed_data'.value))

SpecApp == InitApp /\ [][NextApp]_vars

\* the HTTP status of the response the handler returned
Status ==
    CASE pc = "return_400" -> 400
      [] pc = "return_404" -> 404
      [] pc \in {"return_500", "except_500"} -> 500
      [] pc = "send_file" -> 200
      [] OTHER -> 0

(***************************************************************************)
(* C22                                                                     *)
(***************************************************************************)
MenuFound == menu_choice \in DOMAIN MENU_GENERATOR_MAP
FetchReturnedData == ~menu_feed.null /\ menu_feed.v # EmptyDict
ExtractedNonEmpty ==
    /\ processed_data # Pending /\ ~processed_data.raised
    /\ ~NoItemsFound(processed_data.value, Extractor = "group_preroll_items")
GeneratorInvoked == pdf # Pending

\* a generator is invoked only after the three checks passed, and a request that
\* fails a check is answered 400, 500 or 404, the checks taken in this order
ChecksBeforeGenerator ==
    /\ GeneratorInvoked => (MenuFound /\ FetchReturnedData /\ ExtractedNonEmpty)
    /\ pc # "request" =>
          /\ ~MenuFound => (Status = 400 /\ menu_feed = Null)
          /\ (MenuFound /\ ~FetchReturnedData)
                => (Status = 500 /\ processed_data = Pending)
          /\ (MenuFound /\ FetchReturnedData /\ processed_data # Pending
                /\ ~processed_data.raised /\ ~ExtractedNonEmpty)
                => (Status = 404 /\ ~GeneratorInvoked)
          /\ Status \in {400, 404} \/ pc = "return_500" => ~GeneratorInvoked

\* C22: the /generate handler invokes a PDF generator only after the menu type
\* was found in MENU_GENERATOR_MAP, the fetch returned data and the extracted data
\* is non-empty (otherwise it answers 400, 500 or 404, in that order of checks),
\* and every response that delivers a PDF attachment carries non-empty bytes.
C22_GenerateHandler ==
    /\ ChecksBeforeGenerator
    /\ pc = "send_file" => pdf.value.pdf_data # ""

\* the first half of C22 alone: the order of the checks and of the answers
C22_ChecksBeforeGenerator == ChecksBeforeGenerator

\* an attachment is empty only for a flower menu none of whose extracted items
\* is on the Diamond, Platinum or Gold shelf
C22_EmptyAttachmentOnlyUntieredFlower ==
    (pc = "send_file" /\ pdf.value.pdf_data = "")
        => /\ menu_choice = "flower"
           /\ \A n \in 1..Len(Tiers) :
                 filter_by_tier(processed_data.value, Tiers[n]) = Ok(<<>>)

=============================================================================
